---- MODULE Spec2Model ----
(***************************************************************************)
(* Recurring-expense scheduling of the expense tracker (App component):     *)
(* the generation effect that turns recurrence templates into dated         *)
(* expense instances, the date helpers it relies on, and the user           *)
(* operations that interleave with it.                                      *)
(*                                                                          *)
(* Representation.                                                          *)
(*  - A date string "YYYY-MM-DD" is the number of its calendar day, counted *)
(*    from 2023-01-01 = 1.  String comparison of ISO dates is the numeric   *)
(*    comparison of day numbers.  The absent / empty string is 0 (falsy).   *)
(*  - A JavaScript Date is its instant, in hours since 2023-01-01T00:00Z    *)
(*    minus one day (so that day n starts at hour 24*n in UTC).  The local  *)
(*    time zone is a fixed offset of tz hours east of UTC.                  *)
(*  - undefined is 0 for numeric fields and "" for string fields; both are  *)
(*    falsy, as in the source's truthiness tests.                           *)
(***************************************************************************)
EXTENDS Integers, Sequences, FiniteSets, TLC

VARIABLES
    recurringExpenses,  \* the template collection (useLocalStorage 'recurring_expenses_v1')
    expenses,           \* the expense collection (useLocalStorage 'expenses_v2')
    expenseToDeleteId,  \* id awaiting confirmation in the delete modal, 0 = null
    clockDay,           \* the local calendar day of the wall clock
    tz,                 \* the local zone's UTC offset in hours (fixed per run)
    nextId,             \* source of fresh ids (crypto.randomUUID)
    ticks,              \* number of clock advances so far
    numDeletes,         \* number of delete requests so far
    createdCount,       \* history: template id -> instances ever created for it
    deletedKeys,        \* history: <<recurringExpenseId, date>> of instances the user deleted
    last,               \* history: the last operation on the collections or the clock,
                        \* and the collections before it
    pc,                 \* position of a stepwise run of the generation effect
    run,                \* locals of that run: today, template index, pass-wide state, loop state
    editingExpense,     \* the expense shown in the edit form (useState), id 0 = undefined
    editingRecurringExpense, \* the template shown in the edit form (useState), id 0 = undefined
    isFormOpen,         \* the expense form is open
    activeRecurringExpenses, \* the list the recurring-expenses screen last computed (useMemo)
    numSubmits,         \* number of form submissions and template deletions so far
    removedIds,         \* history: ids of the templates removed from the collection
    lastSubmit,         \* history: the last form submission (data and the form state it met)
    \* the login screen (LoginScreen component)
    mounted,            \* the login screen is mounted
    instance,           \* number of the mounted (or last mounted) instance of the screen
    activeEmail,        \* useLocalStorage 'last_active_user_email', "" = null
    pin,                \* useState: the digits entered
    error,              \* useState: the message shown, "" = null
    isLoading,          \* useState
    bioSupported,       \* useState
    bioEnabled,         \* useState
    autoStartedRef,     \* useRef: autoStartedRef.current
    statusPending,      \* the biometric status effect's async block has not resolved yet
    sessionLock,        \* sessionStorage item 'bio.autoprompt.lock', "" = absent
    storageFails,       \* access to sessionStorage throws (fixed per session)
    requests,           \* login(...) calls whose response has not arrived
    timers,             \* pending setTimeout callbacks of handlePinVerify
    prompts,            \* async blocks of the auto-prompt effect that have not finished
    numLogins,          \* login requests started so far
    autoPrompts,        \* history: automatic unlockWithBiometric invocations so far
    loginSuccess,       \* history: the last onLoginSuccess call, with the active email it met
    \* the tap bridge (useTapBridge hook) and the browser that feeds it
    stateRef,           \* useRef: stateRef.current
    now,                \* performance.now(), in milliseconds
    down,               \* browser: the pointers that are down on the bridged elements
    pendingClick,       \* browser: the native click it is about to dispatch, target "" = none
    lastUp,             \* history: the last pointer up the browser delivered
    lastClick,          \* history: the last trusted click the browser dispatched
    tapRuns,            \* history: runs of the click handler caused by the last pointer up
    \* the App's overlays and its back-button handling
    overlays,           \* useState: the open flags of the overlays other than the form
    backPressExitTimeoutRef, \* useRef: 0 = null, else the id of the timer it holds
    exitTimer,          \* browser: when the scheduled exit timeout is due, in seconds
    clock,              \* seconds since the App was mounted
    lastBackAt,         \* history: when the previous back press arrived
    closedApp,          \* history: window.close() was called
    \* the migration of the data stored under the old keys
    legacyStorage,      \* window.localStorage: the item held under each old key
    hasRunMigrationRef, \* useRef: hasRunMigrationRef.current
    migrationRuns       \* history: runs of the migration since the App was mounted

\* the state of the login screen, of its session and of its history
loginScreen == <<mounted, instance, activeEmail, pin, error, isLoading, bioSupported,
                 bioEnabled, autoStartedRef, statusPending, sessionLock, storageFails,
                 requests, timers, prompts, numLogins, autoPrompts, loginSuccess>>

\* the state of the tap bridge, of the browser that feeds it, and its history
tapBridge == <<stateRef, now, down, pendingClick, lastUp, lastClick, tapRuns>>

\* the back-button handling but the overlays, and all of it
backPress == <<backPressExitTimeoutRef, exitTimer, clock, lastBackAt, closedApp>>
backButton == <<overlays, backPress>>

\* the migration of the old keys: the items, the ref and its history
migration == <<legacyStorage, hasRunMigrationRef, migrationRuns>>

\* the state of the components around the App's collections
shell == <<loginScreen, tapBridge, migration, backButton, migration>>

\* the state of the App component and its history
app == <<recurringExpenses, expenses, expenseToDeleteId, clockDay, tz, nextId,
         ticks, numDeletes, createdCount, deletedKeys, last, pc, run,
         editingExpense, editingRecurringExpense, isFormOpen, activeRecurringExpenses,
         numSubmits, removedIds, lastSubmit>>

vars == <<app, shell>>

\* everything but the login screen, and everything but the tap bridge
outsideLogin == <<app, tapBridge, backButton, migration>>
outsideTap == <<app, loginScreen, backButton, migration>>

\* the state of the form, of the recurring-expenses screen, and their history
ui == <<editingExpense, editingRecurringExpense, isFormOpen, activeRecurringExpenses,
        numSubmits, removedIds, lastSubmit>>

----------------------------------------------------------------------------
(* Bounds of the exploration *)

\* clock advances explored
MaxTicks == 3
\* delete requests explored
MaxDeletes == 1

----------------------------------------------------------------------------
(* Calendar arithmetic of the JavaScript Date object (proleptic Gregorian) *)

IsLeap(y) == (y % 4 = 0 /\ y % 100 # 0) \/ (y % 400 = 0)

\* month m in 1..12
DaysInMonth(y, m) ==
    IF m = 2 THEN (IF IsLeap(y) THEN 29 ELSE 28)
    ELSE IF m \in {4, 6, 9, 11} THEN 30 ELSE 31

\* leap years before year y
LeapsBefore(y) == ((y - 1) \div 4) - ((y - 1) \div 100) + ((y - 1) \div 400)

\* days from 2023-01-01 to the first day of year y >= 2023
DaysBeforeYear(y) == 365 * (y - 2023) + LeapsBefore(y) - LeapsBefore(2023)

\* days of a common year before month m
CumulativeDays == <<0, 31, 59, 90, 120, 151, 181, 212, 243, 273, 304, 334>>

DaysBeforeMonth(y, m) == CumulativeDays[m] + (IF m > 2 /\ IsLeap(y) THEN 1 ELSE 0)

\* Day number of the civil date (y, m, d), normalising as the Date
\* constructor and setters do: a month beyond 12 carries into the year and
\* a day beyond the month's length rolls into the following month(s).
DayNumber(y, m, d) ==
    LET yy == y + ((m - 1) \div 12)
        mm == ((m - 1) % 12) + 1
    IN  DaysBeforeYear(yy) + DaysBeforeMonth(yy, mm) + d

\* The civil date of day number n >= 1
Civil(n) ==
    LET y0 == 2023 + ((n - 1) \div 365)
        y == IF n <= DaysBeforeYear(y0) THEN y0 - 1 ELSE y0
        r == n - DaysBeforeYear(y)
        m == CHOOSE k \in 1..12 :
                 DaysBeforeMonth(y, k) < r /\ r <= DaysBeforeMonth(y, k) + DaysInMonth(y, k)
    IN  [y |-> y, m |-> m, d |-> r - DaysBeforeMonth(y, m)]

\* new Date(year, monthIndex, day): local midnight, as an instant
LocalMidnight(dayNumber) == dayNumber * 24 - tz

\* the local calendar day and hour of an instant
LocalDay(instant) == (instant + tz) \div 24
LocalHour(instant) == (instant + tz) % 24

\* the null Date
NullDate == 0 - 1

----------------------------------------------------------------------------
(* Date helpers of the App module *)

\* toYYYYMMDD: date.toISOString().split('T')[0], the UTC calendar day
toYYYYMMDD(date) == date \div 24

\* parseDate: split the string into year, month, day and build the local
\* midnight new Date(year, month - 1, day)
parseDate(dateString) ==
    LET c == Civil(dateString)
    IN  LocalMidnight(DayNumber(c.y, c.m, c.d))

\* nextDate.setDate(nextDate.getDate() + n), on the local fields
SetDatePlus(date, n) ==
    LET c == Civil(LocalDay(date))
    IN  DayNumber(c.y, c.m, c.d + n) * 24 + LocalHour(date) - tz

\* variant: a day beyond the target month's length is clamped to its last day
SetMonthPlus_clamp(date, n) ==
    LET c == Civil(LocalDay(date))
        first == Civil(DayNumber(c.y, c.m + n, 1))
        d == IF c.d > DaysInMonth(first.y, first.m) THEN DaysInMonth(first.y, first.m) ELSE c.d
    IN  DayNumber(first.y, first.m, d) * 24 + LocalHour(date) - tz

\* nextDate.setMonth(nextDate.getMonth() + n)
SetMonthPlus(date, n) ==
    LET c == Civil(LocalDay(date))
    IN  DayNumber(c.y, c.m + n, c.d) * 24 + LocalHour(date) - tz

\* nextDate.setFullYear(nextDate.getFullYear() + n)
SetFullYearPlus(date, n) ==
    LET c == Civil(LocalDay(date))
    IN  DayNumber(c.y + n, c.m, c.d) * 24 + LocalHour(date) - tz

\* template.recurrenceInterval || 1
IntervalOf(template) ==
    IF template.recurrenceInterval # 0 THEN template.recurrenceInterval ELSE 1

\* variant: the copy of fromDate is returned without being advanced
calculateNextDueDate_sameDate(template, fromDate) ==
    IF template.frequency # "recurring" \/ template.recurrence = "" THEN NullDate
    ELSE fromDate

\* variant: an unrecognised unit is taken for daily
calculateNextDueDate_defaultDaily(template, fromDate) ==
    IF template.frequency # "recurring" \/ template.recurrence = "" THEN NullDate
    ELSE CASE template.recurrence = "daily"   -> SetDatePlus(fromDate, IntervalOf(template))
           [] template.recurrence = "weekly"  -> SetDatePlus(fromDate, 7 * IntervalOf(template))
           [] template.recurrence = "monthly" -> SetMonthPlus(fromDate, IntervalOf(template))
           [] template.recurrence = "yearly"  -> SetFullYearPlus(fromDate, IntervalOf(template))
           [] OTHER -> SetDatePlus(fromDate, IntervalOf(template))

calculateNextDueDate(template, fromDate) ==
    IF template.frequency # "recurring" \/ template.recurrence = "" THEN NullDate
    ELSE CASE template.recurrence = "daily"   -> SetDatePlus(fromDate, IntervalOf(template))
           [] template.recurrence = "weekly"  -> SetDatePlus(fromDate, 7 * IntervalOf(template))
           [] template.recurrence = "monthly" -> SetMonthPlus(fromDate, IntervalOf(template))
           [] template.recurrence = "yearly"  -> SetFullYearPlus(fromDate, IntervalOf(template))
           [] OTHER -> NullDate

----------------------------------------------------------------------------
(* The generation effect *)

\* const today = new Date(); today.setHours(0, 0, 0, 0)
Today == LocalMidnight(clockDay)

\* xs.filter(e => e.recurringExpenseId === id).length
CountFor(xs, id) == Cardinality({i \in 1..Len(xs) : xs[i].recurringExpenseId = id})

\* variant: the duplicate check never finds the occurrence
SomeInstance_never(xs, id, dateString) == FALSE

\* xs.some(exp => exp.recurringExpenseId === id && exp.date === dateString)
SomeInstance(xs, id, dateString) ==
    \E i \in 1..Len(xs) : xs[i].recurringExpenseId = id /\ xs[i].date = dateString

\* variant: the end date is never tested
EndDateReached_never(template, nextDue) == FALSE

\* the loop's first stop test (recurrenceEndType === 'date')
EndDateReached(template, nextDue) ==
    /\ template.recurrenceEndType = "date"
    /\ template.recurrenceEndDate # 0
    /\ toYYYYMMDD(nextDue) > template.recurrenceEndDate

\* variant: the count test lets one occurrence more through
CountReached_strict(template, totalGenerated) ==
    /\ template.recurrenceEndType = "count"
    /\ template.recurrenceCount # 0
    /\ totalGenerated > template.recurrenceCount

\* the loop's second stop test (recurrenceEndType === 'count')
CountReached(template, totalGenerated) ==
    /\ template.recurrenceEndType = "count"
    /\ template.recurrenceCount # 0
    /\ totalGenerated >= template.recurrenceCount

\* variant: the date of the pushed object is not overridden
NewInstance_keepDate(template, id, dateString) ==
    [template EXCEPT !.id = id,
                     !.frequency = "single",
                     !.recurringExpenseId = template.id,
                     !.lastGeneratedDate = 0]

\* the object pushed on newExpenses: the template spread, with id, date,
\* frequency, recurringExpenseId and lastGeneratedDate overridden
NewInstance(template, id, dateString) ==
    [template EXCEPT !.id = id,
                     !.date = dateString,
                     !.frequency = "single",
                     !.recurringExpenseId = template.id,
                     !.lastGeneratedDate = 0]

\* variant: every pass walks again from the template's start date
LoopEntry_fromStart(template, newExpenses, id) ==
    [cursor |-> parseDate(template.date),
     nextDue |-> parseDate(template.date),
     lastGeneratedDate |-> template.lastGeneratedDate,
     newExpenses |-> newExpenses,
     nextId |-> id,
     broke |-> FALSE]

\* The local state of the per-template loop:
\*   nextDue, cursor        the loop variables
\*   lastGeneratedDate      updatedTemplate.lastGeneratedDate
\*   newExpenses, nextId    the pass-wide queue and the id source
\*   broke                  a break statement was executed
LoopEntry(template, newExpenses, id) ==
    LET cursorDateString ==
            IF template.lastGeneratedDate # 0 THEN template.lastGeneratedDate
            ELSE template.date
        cursor == parseDate(cursorDateString)
    IN  [cursor |-> cursor,
         nextDue |-> IF template.lastGeneratedDate = 0 THEN parseDate(template.date)
                     ELSE calculateNextDueDate(template, cursor),
         lastGeneratedDate |-> template.lastGeneratedDate,
         newExpenses |-> newExpenses,
         nextId |-> id,
         broke |-> FALSE]

\* while (nextDue && nextDue <= today)
LoopTest(st, today) == st.nextDue # NullDate /\ st.nextDue <= today

\* variant: an occurrence that is already present does not move the cursor
LoopBody_keepCursorOnDuplicate(template, exps, st) ==
    LET totalGenerated == CountFor(exps, template.id) + CountFor(st.newExpenses, template.id)
        nextDueDateString == toYYYYMMDD(st.nextDue)
        instanceExists == SomeInstance(exps, template.id, nextDueDateString)
                          \/ SomeInstance(st.newExpenses, template.id, nextDueDateString)
    IN  IF EndDateReached(template, st.nextDue) THEN [st EXCEPT !.broke = TRUE]
        ELSE IF CountReached(template, totalGenerated) THEN [st EXCEPT !.broke = TRUE]
        ELSE IF instanceExists
             THEN [st EXCEPT !.nextDue = calculateNextDueDate(template, st.nextDue)]
        ELSE [st EXCEPT
                !.newExpenses = Append(@, NewInstance(template, st.nextId, nextDueDateString)),
                !.nextId = @ + 1,
                !.cursor = st.nextDue,
                !.lastGeneratedDate = toYYYYMMDD(st.nextDue),
                !.nextDue = calculateNextDueDate(template, st.nextDue)]

\* one iteration of the while body
LoopBody(template, exps, st) ==
    LET totalGenerated == CountFor(exps, template.id) + CountFor(st.newExpenses, template.id)
        nextDueDateString == toYYYYMMDD(st.nextDue)
        instanceExists == SomeInstance(exps, template.id, nextDueDateString)
                          \/ SomeInstance(st.newExpenses, template.id, nextDueDateString)
    IN  IF EndDateReached(template, st.nextDue) THEN [st EXCEPT !.broke = TRUE]
        ELSE IF CountReached(template, totalGenerated) THEN [st EXCEPT !.broke = TRUE]
        ELSE [st EXCEPT
                !.newExpenses = IF instanceExists THEN @
                                ELSE Append(@, NewInstance(template, st.nextId, nextDueDateString)),
                !.nextId = IF instanceExists THEN @ ELSE @ + 1,
                !.cursor = st.nextDue,
                !.lastGeneratedDate = toYYYYMMDD(st.nextDue),
                !.nextDue = calculateNextDueDate(template, st.nextDue)]

RECURSIVE WhileLoop(_, _, _, _)
WhileLoop(template, exps, st, today) ==
    IF st.broke \/ ~LoopTest(st, today) THEN st
    ELSE WhileLoop(template, exps, LoopBody(template, exps, st), today)

\* variant: a template is queued for update whenever its cursor is set
CursorChanged_whenSet(template, st) == st.lastGeneratedDate # 0

\* variant: every template with a start date is queued for update
CursorChanged_always(template, st) == TRUE

\* if (updatedTemplate.lastGeneratedDate && updatedTemplate.lastGeneratedDate !== template.lastGeneratedDate)
CursorChanged(template, st) ==
    st.lastGeneratedDate # 0 /\ st.lastGeneratedDate # template.lastGeneratedDate

\* the forEach callback for one template; acc is the pass-wide state
\* [newExpenses, templatesToUpdate, nextId]
ForTemplate(template, exps, acc, today) ==
    IF template.date = 0 THEN acc
    ELSE LET st == WhileLoop(template, exps,
                             LoopEntry(template, acc.newExpenses, acc.nextId), today)
         IN  [newExpenses |-> st.newExpenses,
              templatesToUpdate |->
                  IF CursorChanged(template, st)
                  THEN Append(acc.templatesToUpdate,
                              [template EXCEPT !.lastGeneratedDate = st.lastGeneratedDate])
                  ELSE acc.templatesToUpdate,
              nextId |-> st.nextId]

\* variant: the return that skips a template without date ends the whole pass
RECURSIVE ForEach_untilDateless(_, _, _, _, _)
ForEach_untilDateless(templates, i, exps, acc, today) ==
    IF i > Len(templates) \/ templates[i].date = 0 THEN acc
    ELSE ForEach_untilDateless(templates, i + 1, exps,
                               ForTemplate(templates[i], exps, acc, today), today)

RECURSIVE ForEach(_, _, _, _, _)
ForEach(templates, i, exps, acc, today) ==
    IF i > Len(templates) THEN acc
    ELSE ForEach(templates, i + 1, exps, ForTemplate(templates[i], exps, acc, today), today)

\* const newExpenses = [], templatesToUpdate = []: the pass-wide state at the
\* start of the effect
EmptyAcc(id) == [newExpenses |-> <<>>, templatesToUpdate |-> <<>>, nextId |-> id]

\* the effect body up to the state updates: what one run computes from a
\* snapshot of the templates and the expenses
Generate(templates, exps, today, id) ==
    ForEach(templates, 1, exps, EmptyAcc(id), today)

\* templatesToUpdate.find(ut => ut.id === t.id) || t
FindUpdate(templatesToUpdate, t) ==
    IF \E j \in 1..Len(templatesToUpdate) : templatesToUpdate[j].id = t.id
    THEN templatesToUpdate[CHOOSE j \in 1..Len(templatesToUpdate) :
                              /\ templatesToUpdate[j].id = t.id
                              /\ \A k \in 1..(j - 1) : templatesToUpdate[k].id # t.id]
    ELSE t

\* variant: the new instances replace the collection
ApplyExpenses_onlyNew(prev, newExpenses) == newExpenses

\* setExpenses(prev => [...newExpenses, ...prev]), when newExpenses is not empty
ApplyExpenses(prev, newExpenses) == newExpenses \o prev

\* variant: the updated templates are not merged
ApplyTemplates_none(prev, templatesToUpdate) == prev

\* setRecurringExpenses(prev => prev.map(...)), when templatesToUpdate is not empty
ApplyTemplates(prev, templatesToUpdate) ==
    [i \in 1..Len(prev) |-> FindUpdate(templatesToUpdate, prev[i])]

----------------------------------------------------------------------------
(* Initial states: the stored collections and the environment *)

\* a record of the template collection as the form stores it
Template(id, date, recurrence, interval, endType, endDate, count) ==
    [id |-> id,
     amount |-> 100 * id,
     date |-> date,
     frequency |-> "recurring",
     recurrence |-> recurrence,
     recurrenceInterval |-> interval,
     recurrenceEndType |-> endType,
     recurrenceEndDate |-> endDate,
     recurrenceCount |-> count,
     lastGeneratedDate |-> 0,
     recurringExpenseId |-> 0]

StartDates == {DayNumber(2024, 1, 1), DayNumber(2024, 1, 31)}

\* recurrence unit and interval; "" is an absent unit, "hourly" an unrecognised one
Rules ==
    [recurrence : {"daily", "weekly", "monthly", "yearly"}, interval : {0, 1, 2}]
    \cup [recurrence : {"", "hourly"}, interval : {0}]

EndDates == {DayNumber(2023, 12, 31), DayNumber(2024, 1, 2),
             DayNumber(2024, 1, 10), DayNumber(2024, 3, 15)}

\* end condition: type, end date, count
Ends ==
    [endType : {"", "forever"}, endDate : {0}, count : {0}]
    \cup [endType : {"count"}, endDate : {0}, count : {0, 1, 2}]
    \cup [endType : {"date"}, endDate : EndDates \cup {0}, count : {0}]

PrimaryTemplates ==
    {Template(1, d, r.recurrence, r.interval, e.endType, e.endDate, e.count) :
        d \in StartDates, r \in Rules, e \in Ends}
    \cup {Template(1, 0, "daily", 0, "forever", 0, 0)}

TimeZones == {0 - 5, 0, 1}

InitialTemplateLists == {<<t>> : t \in PrimaryTemplates}

\* the loop locals outside any loop
NoLoop == [cursor |-> NullDate, nextDue |-> NullDate, lastGeneratedDate |-> 0,
           newExpenses |-> <<>>, nextId |-> 0, broke |-> FALSE]

\* undefined, where the source holds an expense or nothing
Undefined == [id |-> 0]

\* no form has been submitted yet
NoSubmit == [data |-> Undefined, editingExpense |-> Undefined,
             editingRecurringExpense |-> Undefined]

\* no run of the effect is in progress
NoRun == [today |-> 0, i |-> 0, acc |-> EmptyAcc(0), st |-> NoLoop]

\* onLoginSuccess has not been called
NoLogin == [email |-> "", active |-> "", by |-> ""]

\* the login screen once the user is logged in and the App is shown: the
\* screen is unmounted and nothing of it is in flight
LoggedIn ==
    /\ mounted = FALSE
    /\ instance = 1
    /\ activeEmail = "a"
    /\ pin = <<>>
    /\ error = ""
    /\ isLoading = FALSE
    /\ bioSupported = FALSE
    /\ bioEnabled = FALSE
    /\ autoStartedRef = FALSE
    /\ statusPending = FALSE
    /\ sessionLock = ""
    /\ storageFails = FALSE
    /\ requests = {}
    /\ timers = {}
    /\ prompts = <<>>
    /\ numLogins = 0
    /\ autoPrompts = 0
    /\ loginSuccess = NoLogin

\* stateRef.current as useRef creates it; id 0 and target "" are null
NewStateRef == [id |-> 0, t0 |-> 0, x0 |-> 0, y0 |-> 0, target |-> "", suppressNextClick |-> FALSE]

NoUp == [tap |-> FALSE, bridged |-> FALSE]
NoClick == [ofTap |-> FALSE, suppressed |-> FALSE]

\* no pointer touches the bridged elements
Untouched ==
    /\ stateRef = NewStateRef
    /\ now = 0
    /\ down = {}
    /\ pendingClick = ""
    /\ lastUp = NoUp
    /\ lastClick = NoClick
    /\ tapRuns = 0

\* no timer is scheduled
NoTimer == 0 - 1
\* no back press has arrived
Never == 0 - 1

\* the overlays other than the form, all closed
AllClosed ==
    [isHistoryScreenOpen |-> FALSE,
     isRecurringScreenOpen |-> FALSE,
     imageForAnalysis |-> FALSE,
     isCalculatorContainerOpen |-> FALSE,
     isImageSourceModalOpen |-> FALSE,
     isVoiceModalOpen |-> FALSE,
     isConfirmDeleteModalOpen |-> FALSE,
     isMultipleExpensesModalOpen |-> FALSE]

\* the home view: no overlay is open and no back press has arrived
AtHome ==
    /\ overlays = AllClosed
    /\ backPressExitTimeoutRef = 0
    /\ exitTimer = NoTimer
    /\ clock = 0
    /\ lastBackAt = Never
    /\ closedApp = FALSE

\* the components around the App's collections are at rest
\* the old keys, in the order the migration tries them
legacyExpenseKeys == <<"expenses_v1", "expenses", "spese", "spese_v1">>
legacyRecurringKeys == <<"recurring_expenses", "ricorrenti", "recurring">>

LegacyKeys ==
    {legacyExpenseKeys[k] : k \in 1..Len(legacyExpenseKeys)}
        \cup {legacyRecurringKeys[k] : k \in 1..Len(legacyRecurringKeys)}

\* what getItem returns for a key that holds nothing
NoItem == [kind |-> "null", items |-> <<>>]

\* the migration after it ran with nothing under the old keys
Migrated ==
    /\ legacyStorage = [key \in LegacyKeys |-> NoItem]
    /\ hasRunMigrationRef = TRUE
    /\ migrationRuns = 1

ShellAtRest == LoggedIn /\ Untouched /\ AtHome /\ Migrated

\* the App's own state after mount, for a stored template list among
\* templateLists and a stored expense list among expenseLists
AppInitWith(templateLists, expenseLists) ==
    /\ recurringExpenses \in templateLists
    /\ expenses \in expenseLists
    /\ expenseToDeleteId = 0
    /\ clockDay = DayNumber(2024, 1, 1)
    /\ tz \in TimeZones
    /\ nextId = 3
    /\ ticks = 0
    /\ numDeletes = 0
    /\ createdCount = [id \in {1, 2} |-> 0]
    /\ deletedKeys = {}
    /\ last = [op |-> "init", templates |-> recurringExpenses, expenses |-> expenses]
    /\ pc = "idle"
    /\ run = NoRun
    /\ editingExpense = Undefined
    /\ editingRecurringExpense = Undefined
    /\ isFormOpen = FALSE
    /\ activeRecurringExpenses = <<>>
    /\ numSubmits = 0
    /\ removedIds = {}
    /\ lastSubmit = NoSubmit

\* the App's own state after mount, with no expense stored
AppInit(templateLists) == AppInitWith(templateLists, {<<>>})

\* the state after mount, for a stored template list among templateLists
InitWith(templateLists) == ShellAtRest /\ AppInit(templateLists)

Init == InitWith(InitialTemplateLists)

----------------------------------------------------------------------------
(* Operations *)

\* what the operation about to run leaves in the history variable
Before(op) == [op |-> op, templates |-> recurringExpenses, expenses |-> expenses]

\* One run of the generation effect together with the state updates it
\* requests: it reads the rendered collections and today's date.
GenerationPass ==
    \E r \in {Generate(recurringExpenses, expenses, Today, nextId)} :
        /\ pc = "idle"
        /\ expenses' = IF Len(r.newExpenses) > 0
                       THEN ApplyExpenses(expenses, r.newExpenses) ELSE expenses
        /\ recurringExpenses' = IF Len(r.templatesToUpdate) > 0
                                THEN ApplyTemplates(recurringExpenses, r.templatesToUpdate)
                                ELSE recurringExpenses
        /\ nextId' = r.nextId
        /\ createdCount' = [id \in DOMAIN createdCount |->
                               createdCount[id] + CountFor(r.newExpenses, id)]
        /\ last' = Before("generate")
        /\ UNCHANGED <<expenseToDeleteId, clockDay, tz, shell, ticks, numDeletes, deletedKeys,
                       pc, run, ui>>

\* handleDeleteRequest(id), from the delete control of a listed expense
HandleDeleteRequest(id) ==
    /\ pc = "idle"
    /\ numDeletes < MaxDeletes
    /\ expenseToDeleteId' = id
    /\ overlays' = [overlays EXCEPT !.isConfirmDeleteModalOpen = TRUE]
    /\ numDeletes' = numDeletes + 1
    /\ last' = Before("deleteRequest")
    /\ UNCHANGED <<recurringExpenses, expenses, clockDay, tz, loginScreen, tapBridge, migration,
                   backPress, nextId, ticks, createdCount, deletedKeys, pc, run, ui>>

\* confirmDelete()
ConfirmDelete ==
    /\ pc = "idle"
    /\ expenseToDeleteId # 0
    /\ expenses' = SelectSeq(expenses, LAMBDA e : e.id # expenseToDeleteId)
    /\ expenseToDeleteId' = 0
    /\ deletedKeys' = deletedKeys \cup
            {<<expenses[i].recurringExpenseId, expenses[i].date>> :
                i \in {j \in 1..Len(expenses) : /\ expenses[j].id = expenseToDeleteId
                                                 /\ expenses[j].recurringExpenseId # 0}}
    /\ overlays' = [overlays EXCEPT !.isConfirmDeleteModalOpen = FALSE]
    /\ last' = Before("delete")
    /\ UNCHANGED <<recurringExpenses, clockDay, tz, loginScreen, tapBridge, migration, backPress,
                   nextId, ticks, numDeletes, createdCount, pc, run, ui>>

\* nominal length in days of a recurrence unit
UnitDays(recurrence) ==
    CASE recurrence = "weekly" -> 7
      [] recurrence = "monthly" -> 31
      [] recurrence = "yearly" -> 366
      [] OTHER -> 1

\* the clock steps explored: one day, or the shortest unit among the templates
TickDays ==
    {1} \cup {u \in {UnitDays(recurringExpenses[i].recurrence) :
                       i \in 1..Len(recurringExpenses)} :
                \A j \in 1..Len(recurringExpenses) :
                    u <= UnitDays(recurringExpenses[j].recurrence)}

\* time passes: the wall clock reaches a later day
Tick(days) ==
    /\ pc = "idle"
    /\ ticks < MaxTicks
    /\ clockDay' = clockDay + days
    /\ ticks' = ticks + 1
    /\ last' = Before("tick")
    /\ UNCHANGED <<recurringExpenses, expenses, expenseToDeleteId, tz, shell, nextId,
                   numDeletes, createdCount, deletedKeys, pc, run, ui>>

Next ==
    \/ GenerationPass
    \/ \E i \in 1..Len(expenses) : HandleDeleteRequest(expenses[i].id)
    \/ ConfirmDelete
    \/ \E days \in TickDays : Tick(days)

Spec == Init /\ [][Next]_vars

----------------------------------------------------------------------------
(* The generation effect, one statement at a time.  The effect is a          *)
(* synchronous callback: once started it runs to its end and no other        *)
(* handler runs in between.                                                  *)

data == <<recurringExpenses, expenses, expenseToDeleteId, clockDay, tz, shell, nextId,
          ticks, numDeletes, createdCount, deletedKeys, last, ui>>

\* the effect starts: today is read, the two arrays are empty
StartPass ==
    /\ pc = "idle"
    /\ run' = [today |-> Today, i |-> 1, acc |-> EmptyAcc(nextId), st |-> NoLoop]
    /\ pc' = "forEach"
    /\ UNCHANGED data

\* the forEach callback is entered for the next template: either the
\* template has no date and is skipped, or the loop variables are set up
EnterTemplate ==
    /\ pc = "forEach"
    /\ run.i <= Len(recurringExpenses)
    /\ LET template == recurringExpenses[run.i]
       IN  IF template.date = 0
           THEN /\ run' = [run EXCEPT !.i = @ + 1]
                /\ pc' = pc
           ELSE /\ run' = [run EXCEPT
                              !.st = LoopEntry(template, run.acc.newExpenses, run.acc.nextId)]
                /\ pc' = "while"
    /\ UNCHANGED data

\* the loop test succeeds and the body runs once
WhileStep ==
    /\ pc = "while"
    /\ ~run.st.broke
    /\ LoopTest(run.st, run.today)
    /\ run' = [run EXCEPT !.st = LoopBody(recurringExpenses[run.i], expenses, run.st)]
    /\ UNCHANGED <<pc, data>>

\* the loop is left, by its test or by a break; the template is queued for
\* update if its cursor changed
ExitTemplate ==
    /\ pc = "while"
    /\ run.st.broke \/ ~LoopTest(run.st, run.today)
    /\ LET template == recurringExpenses[run.i]
       IN  run' = [run EXCEPT
                    !.i = @ + 1,
                    !.st = NoLoop,
                    !.acc = [newExpenses |-> run.st.newExpenses,
                             templatesToUpdate |->
                                 IF CursorChanged(template, run.st)
                                 THEN Append(run.acc.templatesToUpdate,
                                             [template EXCEPT !.lastGeneratedDate =
                                                                  run.st.lastGeneratedDate])
                                 ELSE run.acc.templatesToUpdate,
                             nextId |-> run.st.nextId]]
    /\ pc' = "forEach"
    /\ UNCHANGED data

\* after the last template the two state updates are requested
Commit ==
    /\ pc = "forEach"
    /\ run.i > Len(recurringExpenses)
    /\ expenses' = IF Len(run.acc.newExpenses) > 0
                   THEN ApplyExpenses(expenses, run.acc.newExpenses) ELSE expenses
    /\ recurringExpenses' = IF Len(run.acc.templatesToUpdate) > 0
                            THEN ApplyTemplates(recurringExpenses, run.acc.templatesToUpdate)
                            ELSE recurringExpenses
    /\ nextId' = run.acc.nextId
    /\ createdCount' = [id \in DOMAIN createdCount |->
                           createdCount[id] + CountFor(run.acc.newExpenses, id)]
    /\ last' = Before("generate")
    /\ pc' = "idle"
    /\ run' = NoRun
    /\ UNCHANGED <<expenseToDeleteId, clockDay, tz, shell, ticks, numDeletes, deletedKeys, ui>>

LoopNext ==
    \/ StartPass
    \/ EnterTemplate
    \/ WhileStep
    \/ ExitTemplate
    \/ Commit
    \/ \E days \in TickDays : Tick(days)

\* the end conditions explored statement by statement
LoopEnds ==
    {e \in Ends : \/ e.endType = "forever"
                  \/ e.count = 1
                  \/ e.endDate = DayNumber(2024, 1, 2)}

LoopTemplateLists ==
    {<<Template(1, d, r.recurrence, r.interval, e.endType, e.endDate, e.count)>> :
        d \in StartDates, r \in Rules, e \in LoopEnds}
    \cup {<<Template(1, 0, "daily", 0, "forever", 0, 0)>>}

\* The effect runs statement by statement between clock advances.  A started
\* effect keeps running until it returns: the loop statements are weakly fair.
LoopSpec ==
    /\ InitWith(LoopTemplateLists)
    /\ [][LoopNext]_vars
    /\ WF_vars(WhileStep) /\ WF_vars(ExitTemplate)

\* the end conditions whose stop tests are followed statement by statement:
\* none, a count (absent, 2), an end date (absent, 2024-01-02)
StopEnds ==
    {e \in Ends : \/ e.endType \in {"", "forever"}
                  \/ e.endType = "count" /\ e.count \in {0, 2}
                  \/ e.endType = "date" /\ e.endDate \in {0, DayNumber(2024, 1, 2)}}

StopTemplateLists ==
    {<<Template(1, DayNumber(2024, 1, 1), "daily", 1, e.endType, e.endDate, e.count)>> :
        e \in StopEnds}

\* the state after mount, with a daily template under each end condition
StopInit == InitWith(StopTemplateLists)

\* the effect, statement by statement, on those templates
StopSpec == StopInit /\ [][LoopNext]_vars

----------------------------------------------------------------------------
(* The recurring-expenses screen: the list of templates it shows *)

\* parseLocalYYYYMMDD: null for an absent string, else local midnight of the day
parseLocalYYYYMMDD(dateString) ==
    IF dateString = 0 THEN NullDate ELSE LocalMidnight(dateString)

\* variant: a template that has reached its count is still shown
CountLeft_inclusive(template, exps) ==
    \/ template.recurrenceCount = 0
    \/ template.recurrenceCount <= 0
    \/ CountFor(exps, template.id) <= template.recurrenceCount

\* the count branch of the filter
CountLeft(template, exps) ==
    \/ template.recurrenceCount = 0
    \/ template.recurrenceCount <= 0
    \/ CountFor(exps, template.id) < template.recurrenceCount

\* the date branch of the filter; the screen's own calculateNextDueDate is the
\* same function as the App's
DateLeft(template) ==
    LET endDate == parseLocalYYYYMMDD(template.recurrenceEndDate)
        lastDate == parseLocalYYYYMMDD(IF template.lastGeneratedDate # 0
                                       THEN template.lastGeneratedDate ELSE template.date)
        nextDueDate == calculateNextDueDate(template, lastDate)
    IN  IF endDate = NullDate THEN TRUE
        ELSE IF lastDate = NullDate THEN TRUE
        ELSE IF lastDate > endDate THEN FALSE
        ELSE IF nextDueDate = NullDate THEN FALSE
        ELSE nextDueDate <= endDate

\* the predicate of activeRecurringExpenses' filter
IsActive(template, exps) ==
    IF template.frequency # "recurring" THEN FALSE
    ELSE IF template.recurrenceEndType = "" \/ template.recurrenceEndType = "forever"
         THEN TRUE
    ELSE IF template.recurrenceEndType = "count" THEN CountLeft(template, exps)
    ELSE IF template.recurrenceEndType = "date" THEN DateLeft(template)
    ELSE TRUE

\* activeRecurringExpenses, as the memo computes it from the screen's props
ActiveRecurringExpenses(templates, exps) ==
    SelectSeq(templates, LAMBDA template : IsActive(template, exps))

\* the screen is rendered: the memo is computed from the current collections
RenderRecurringScreen ==
    /\ pc = "idle"
    /\ activeRecurringExpenses' = ActiveRecurringExpenses(recurringExpenses, expenses)
    /\ last' = Before("render")
    /\ UNCHANGED <<recurringExpenses, expenses, expenseToDeleteId, clockDay, tz, shell, nextId,
                   ticks, numDeletes, createdCount, deletedKeys, pc, run,
                   editingExpense, editingRecurringExpense, isFormOpen,
                   numSubmits, removedIds, lastSubmit>>

----------------------------------------------------------------------------
(* The expense form and the template operations *)

\* form submissions and template deletions explored
MaxSubmits == 1

\* variant: the new expense replaces the collection
addExpense_onlyNew(prev, newExpense, id) == <<[newExpense EXCEPT !.id = id]>>

\* addExpense: the expense gets a fresh id and is prepended
addExpense(prev, newExpense, id) == <<[newExpense EXCEPT !.id = id]>> \o prev

\* addRecurringExpense: the template gets a fresh id and is prepended
addRecurringExpense(prev, newExpenseData, id) == <<[newExpenseData EXCEPT !.id = id]>> \o prev

\* updateExpense
updateExpense(prev, updatedExpense) ==
    [i \in 1..Len(prev) |-> IF prev[i].id = updatedExpense.id THEN updatedExpense ELSE prev[i]]

\* variant: a record with an id the collection does not hold is prepended
updateRecurringExpense_upsert(prev, updatedTemplate) ==
    IF \E i \in 1..Len(prev) : prev[i].id = updatedTemplate.id
    THEN [i \in 1..Len(prev) |-> IF prev[i].id = updatedTemplate.id THEN updatedTemplate ELSE prev[i]]
    ELSE <<updatedTemplate>> \o prev

\* updateRecurringExpense
updateRecurringExpense(prev, updatedTemplate) ==
    [i \in 1..Len(prev) |-> IF prev[i].id = updatedTemplate.id THEN updatedTemplate ELSE prev[i]]

\* variant: the template stays in the collection
RemoveById_keep(prev, id) == prev

\* prev.filter(e => e.id !== id)
RemoveById(prev, id) == SelectSeq(prev, LAMBDA e : e.id # id)

\* variant: every submission of an edited template is a conversion
IsConversion_anyFrequency(editing, formData) ==
    /\ editing.id # 0
    /\ formData.id # 0
    /\ formData.id = editing.id

\* the test of handleFormSubmit's first branch: a template under edit is
\* submitted with a frequency other than recurring
IsConversion(editing, formData) ==
    /\ editing.id # 0
    /\ formData.id # 0
    /\ formData.id = editing.id
    /\ formData.frequency # "recurring"

\* variant: the link and the cursor survive the conversion
NewSingleExpenseData_keepLink(formData) ==
    [formData EXCEPT !.frequency = "single",
                     !.recurrence = "",
                     !.recurrenceInterval = 0,
                     !.recurrenceEndType = "",
                     !.recurrenceEndDate = 0,
                     !.recurrenceCount = 0]

\* newSingleExpenseData: the submitted data as a single expense; the id is
\* dropped by the destructuring that follows and assigned anew by addExpense
NewSingleExpenseData(formData) ==
    [formData EXCEPT !.id = 0,
                     !.frequency = "single",
                     !.recurrence = "",
                     !.recurrenceInterval = 0,
                     !.recurrenceEndType = "",
                     !.recurrenceEndDate = 0,
                     !.recurrenceCount = 0,
                     !.recurringExpenseId = 0,
                     !.lastGeneratedDate = 0]

\* initialData of the form
InitialData == IF editingExpense.id # 0 THEN editingExpense ELSE editingRecurringExpense

\* What the form can submit.  Editing: the initial data with the amount
\* changed and the frequency as the user leaves it.  Otherwise a new entry without id: a
\* single expense, or a daily template starting on the wall clock's day.
FormData ==
    IF isFormOpen /\ InitialData.id # 0
    THEN {[InitialData EXCEPT !.frequency = f, !.amount = a] :
              f \in {"single", "recurring"}, a \in {InitialData.amount + 1}}
    ELSE {[Template(0, clockDay, "", 0, "", 0, 0) EXCEPT !.frequency = "single"],
          Template(0, clockDay, "daily", 1, "forever", 0, 0)}

\* openEditForm(expense), from a listed expense
OpenEditForm(expense) ==
    /\ pc = "idle"
    /\ numSubmits < MaxSubmits
    /\ editingExpense' = expense
    /\ isFormOpen' = TRUE
    /\ UNCHANGED <<recurringExpenses, expenses, expenseToDeleteId, clockDay, tz, shell, nextId,
                   ticks, numDeletes, createdCount, deletedKeys, pc, run,
                   editingRecurringExpense, activeRecurringExpenses,
                   numSubmits, removedIds, lastSubmit, last>>

\* openRecurringEditForm(expense), from a template the recurring screen lists
OpenRecurringEditForm(expense) ==
    /\ pc = "idle"
    /\ numSubmits < MaxSubmits
    /\ IsActive(expense, expenses)
    /\ editingRecurringExpense' = expense
    /\ isFormOpen' = TRUE
    /\ UNCHANGED <<recurringExpenses, expenses, expenseToDeleteId, clockDay, tz, shell, nextId,
                   ticks, numDeletes, createdCount, deletedKeys, pc, run,
                   editingExpense, activeRecurringExpenses,
                   numSubmits, removedIds, lastSubmit, last>>

\* the form's onClose
CloseForm ==
    /\ pc = "idle"
    /\ isFormOpen
    /\ isFormOpen' = FALSE
    /\ editingExpense' = Undefined
    /\ editingRecurringExpense' = Undefined
    /\ UNCHANGED <<recurringExpenses, expenses, expenseToDeleteId, clockDay, tz, shell, nextId,
                   ticks, numDeletes, createdCount, deletedKeys, pc, run,
                   activeRecurringExpenses, numSubmits, removedIds, lastSubmit, last>>

\* handleFormSubmit(data)
HandleFormSubmit(formData) ==
    /\ pc = "idle"
    /\ numSubmits < MaxSubmits
    /\ IF IsConversion(editingRecurringExpense, formData)
       THEN /\ recurringExpenses' = RemoveById(recurringExpenses, editingRecurringExpense.id)
            /\ expenses' = addExpense(expenses, NewSingleExpenseData(formData), nextId)
            /\ nextId' = nextId + 1
       ELSE IF formData.frequency = "recurring"
       THEN IF formData.id # 0
            THEN /\ recurringExpenses' = updateRecurringExpense(recurringExpenses, formData)
                 /\ UNCHANGED <<expenses, nextId>>
            ELSE /\ recurringExpenses' = addRecurringExpense(recurringExpenses, formData, nextId)
                 /\ nextId' = nextId + 1
                 /\ UNCHANGED expenses
       ELSE IF formData.id # 0
            THEN /\ expenses' = updateExpense(expenses, formData)
                 /\ UNCHANGED <<recurringExpenses, nextId>>
            ELSE /\ expenses' = addExpense(expenses, formData, nextId)
                 /\ nextId' = nextId + 1
                 /\ UNCHANGED recurringExpenses
    /\ isFormOpen' = FALSE
    /\ editingExpense' = Undefined
    /\ editingRecurringExpense' = Undefined
    /\ numSubmits' = numSubmits + 1
    /\ removedIds' = removedIds \cup
          ({recurringExpenses[i].id : i \in 1..Len(recurringExpenses)}
             \ {recurringExpenses'[i].id : i \in 1..Len(recurringExpenses')})
    /\ lastSubmit' = [data |-> formData, editingExpense |-> editingExpense,
                      editingRecurringExpense |-> editingRecurringExpense]
    /\ overlays' = [overlays EXCEPT !.isCalculatorContainerOpen = FALSE]
    /\ last' = Before("submit")
    /\ UNCHANGED <<expenseToDeleteId, clockDay, tz, loginScreen, tapBridge, migration, backPress,
                   ticks, numDeletes, createdCount, deletedKeys, pc, run,
                   activeRecurringExpenses>>

\* variant: the instances generated from the template are deleted with it
DeleteRecurringExpense_cascade(id) ==
    /\ pc = "idle"
    /\ numSubmits < MaxSubmits
    /\ recurringExpenses' = RemoveById(recurringExpenses, id)
    /\ expenses' = SelectSeq(expenses, LAMBDA e : e.recurringExpenseId # id)
    /\ numSubmits' = numSubmits + 1
    /\ removedIds' = removedIds \cup {id}
    /\ last' = Before("deleteRecurring")
    /\ UNCHANGED <<expenseToDeleteId, clockDay, tz, shell, nextId, ticks, numDeletes,
                   createdCount, deletedKeys, pc, run, editingExpense,
                   editingRecurringExpense, isFormOpen, activeRecurringExpenses, lastSubmit>>

\* deleteRecurringExpense(id), confirmed on a template the recurring screen lists
DeleteRecurringExpense(id) ==
    /\ pc = "idle"
    /\ numSubmits < MaxSubmits
    /\ recurringExpenses' = RemoveById(recurringExpenses, id)
    /\ numSubmits' = numSubmits + 1
    /\ removedIds' = removedIds \cup {id}
    /\ last' = Before("deleteRecurring")
    /\ UNCHANGED <<expenses, expenseToDeleteId, clockDay, tz, shell, nextId, ticks, numDeletes,
                   createdCount, deletedKeys, pc, run, editingExpense,
                   editingRecurringExpense, isFormOpen, activeRecurringExpenses, lastSubmit>>

\* the template lists explored with the form: one template, or two
FormTemplateLists ==
    {<<Template(1, DayNumber(2024, 1, 1), "daily", 1, "forever", 0, 0)>>,
     <<Template(1, DayNumber(2024, 1, 1), "daily", 1, "date", DayNumber(2024, 1, 2), 0)>>,
     <<Template(1, DayNumber(2024, 1, 1), "daily", 1, "count", 0, 2),
       Template(2, DayNumber(2024, 1, 1), "weekly", 1, "forever", 0, 0)>>}

\* the state after mount, in the UTC zone
FormInit == InitWith(FormTemplateLists) /\ tz = 0

FormNext ==
    \/ GenerationPass
    \/ \E days \in TickDays : Tick(days)
    \/ \E i \in 1..Len(expenses) : OpenEditForm(expenses[i])
    \/ \E i \in 1..Len(recurringExpenses) : OpenRecurringEditForm(recurringExpenses[i])
    \/ CloseForm
    \/ \E formData \in FormData : HandleFormSubmit(formData)
    \/ \E i \in 1..Len(recurringExpenses) :
          IsActive(recurringExpenses[i], expenses)
              /\ DeleteRecurringExpense(recurringExpenses[i].id)

\* the App with its expense form and the template operations, in the UTC zone
FormSpec == FormInit /\ [][FormNext]_vars

\* the rules and end conditions explored with the recurring-expenses screen
ScreenRules ==
    {r \in Rules : (r.interval = 1 /\ r.recurrence \in {"daily", "weekly", "monthly"})
                        \/ r.recurrence = ""}

ScreenEnds ==
    {e \in Ends : \/ e.endType = "forever"
                  \/ e.endType = "count"
                  \/ e.endDate \in {0, DayNumber(2024, 1, 2), DayNumber(2024, 1, 10)}}

ScreenTemplateLists ==
    {<<Template(1, d, r.recurrence, r.interval, e.endType, e.endDate, e.count)>> :
        d \in StartDates, r \in ScreenRules, e \in ScreenEnds}
    \cup {<<Template(1, 0, "daily", 1, "date", DayNumber(2024, 1, 10), 0)>>}

ScreenNext ==
    \/ GenerationPass
    \/ \E i \in 1..Len(expenses) : HandleDeleteRequest(expenses[i].id)
    \/ ConfirmDelete
    \/ \E days \in TickDays : Tick(days)
    \/ RenderRecurringScreen

\* the App with its recurring-expenses screen
ScreenSpec == InitWith(ScreenTemplateLists) /\ [][ScreenNext]_vars

\* well-formed templates of the lists that hold two templates
GoodTemplates(id) ==
    {Template(id, DayNumber(2024, 1, 1), "daily", 1, "forever", 0, 0),
     Template(id, DayNumber(2024, 1, 1), "weekly", 1, "count", 0, 2),
     Template(id, DayNumber(2024, 1, 31), "monthly", 1, "date", DayNumber(2024, 3, 15), 0)}

\* stored templates the pass has to cope with: no start date (with and
\* without a cursor), an absent unit, an unrecognised unit
BadTemplates(id) ==
    {Template(id, 0, "daily", 1, "forever", 0, 0),
     [Template(id, 0, "daily", 1, "forever", 0, 0)
         EXCEPT !.lastGeneratedDate = DayNumber(2024, 1, 1)],
     Template(id, DayNumber(2024, 1, 1), "", 0, "forever", 0, 0),
     Template(id, DayNumber(2024, 1, 1), "hourly", 1, "forever", 0, 0)}

\* lists of two templates: a well-formed one beside a malformed one, in
\* either order, or two well-formed ones
MixedTemplateLists ==
    {<<g, b>> : g \in GoodTemplates(1), b \in BadTemplates(2)}
    \cup {<<b, g>> : b \in BadTemplates(1), g \in GoodTemplates(2)}
    \cup {<<g, h>> : g \in GoodTemplates(1), h \in GoodTemplates(2)}

\* the state after mount, with two stored templates
MixedInit == InitWith(MixedTemplateLists)

\* the App with two stored templates
MixedSpec == MixedInit /\ [][Next]_vars

\* the template lists on which the effect's re-runs are followed
ReactTemplateLists ==
    {<<Template(1, DayNumber(2024, 1, 1), "daily", 2, "forever", 0, 0)>>,
     <<Template(1, DayNumber(2024, 1, 1), "daily", 1, "count", 0, 2)>>,
     <<Template(1, DayNumber(2024, 1, 31), "monthly", 1, "forever", 0, 0)>>,
     <<Template(1, DayNumber(2024, 1, 1), "daily", 1, "forever", 0, 0),
       Template(2, DayNumber(2024, 1, 1), "weekly", 1, "count", 0, 2)>>}

\* the state after mount
ReactInit == InitWith(ReactTemplateLists)

\* the effect statement by statement, the clock, and the deletion of expenses
ReactNext ==
    \/ StartPass
    \/ EnterTemplate
    \/ WhileStep
    \/ ExitTemplate
    \/ Commit
    \/ \E days \in TickDays : Tick(days)
    \/ \E i \in 1..Len(expenses) : HandleDeleteRequest(expenses[i].id)
    \/ ConfirmDelete

\* The effect as React schedules it: it runs after mount and again after
\* every commit that changed expenses or recurringExpenses, its own updates
\* included (a run after a commit that changed nothing is a run React would
\* not start; it requests no update).  The effect is synchronous: its loop
\* goes on and a run that has reached its end requests its updates.
ReactSpec ==
    /\ ReactInit
    /\ [][ReactNext]_vars
    /\ WF_vars(StartPass) /\ WF_vars(WhileStep) /\ WF_vars(ExitTemplate)
    /\ WF_vars(Commit)

----------------------------------------------------------------------------
(* The effect run twice on one snapshot *)

\* The value prev that a state updater (prev => ...) receives when an update
\* requested earlier from the same render is still pending: the collection
\* as that earlier update leaves it, not the rendered snapshot.
PrevOfQueuedUpdate(snapshot, current) == current

\* The effect is run, torn down and run again before any state update is
\* applied (a mount under React's StrictMode): both runs read the rendered
\* collections, each requests its own updates, and the updates are applied in
\* the order they were requested.
DoubleGenerationPass ==
    \E r1 \in {Generate(recurringExpenses, expenses, Today, nextId)} :
      \E r2 \in {Generate(recurringExpenses, expenses, Today, r1.nextId)} :
        \E e1 \in {IF Len(r1.newExpenses) > 0
                    THEN ApplyExpenses(expenses, r1.newExpenses) ELSE expenses},
           t1 \in {IF Len(r1.templatesToUpdate) > 0
                    THEN ApplyTemplates(recurringExpenses, r1.templatesToUpdate)
                    ELSE recurringExpenses} :
            /\ pc = "idle"
            /\ expenseToDeleteId = 0
            /\ expenses' = IF Len(r2.newExpenses) > 0
                           THEN ApplyExpenses(PrevOfQueuedUpdate(expenses, e1), r2.newExpenses)
                           ELSE e1
            /\ recurringExpenses' =
                   IF Len(r2.templatesToUpdate) > 0
                   THEN ApplyTemplates(PrevOfQueuedUpdate(recurringExpenses, t1),
                                       r2.templatesToUpdate)
                   ELSE t1
            /\ nextId' = r2.nextId
            /\ createdCount' = [id \in DOMAIN createdCount |->
                                   createdCount[id] + CountFor(r1.newExpenses, id)
                                       + CountFor(r2.newExpenses, id)]
            /\ last' = Before("generateTwice")
            /\ UNCHANGED <<expenseToDeleteId, clockDay, tz, shell, ticks, numDeletes, deletedKeys,
                           pc, run, ui>>

StrictNext ==
    \/ GenerationPass
    \/ DoubleGenerationPass
    \/ \E i \in 1..Len(expenses) : HandleDeleteRequest(expenses[i].id)
    \/ ConfirmDelete
    \/ \E days \in TickDays : Tick(days)

\* the App when a mount may run the effect twice
StrictSpec == ReactInit /\ [][StrictNext]_vars

----------------------------------------------------------------------------
(* Vocabulary of the properties *)

TemplateIndices == 1..Len(recurringExpenses)

\* positions of the expenses that reference template id
InstancesOf(xs, id) == {i \in 1..Len(xs) : xs[i].recurringExpenseId = id}

\* dates of the expenses that reference template id
DatesOf(xs, id) == {xs[i].date : i \in InstancesOf(xs, id)}

\* the collections after one generation pass has been applied to (templates, exps)
AfterPass(templates, exps, today, id) ==
    LET r == Generate(templates, exps, today, id)
    IN  [templates |-> IF Len(r.templatesToUpdate) > 0
                       THEN ApplyTemplates(templates, r.templatesToUpdate) ELSE templates,
         expenses |-> IF Len(r.newExpenses) > 0
                      THEN ApplyExpenses(exps, r.newExpenses) ELSE exps,
         nextId |-> r.nextId,
         newExpenses |-> r.newExpenses,
         templatesToUpdate |-> r.templatesToUpdate]

\* recognised unit (the interval is never negative in the stored data)
ValidRule(t) ==
    t.frequency = "recurring" /\ t.recurrence \in {"daily", "weekly", "monthly", "yearly"}

NoEnd(t) == t.recurrenceEndType \in {"", "forever"}

\* the user has deleted an instance of template id
DeletedFrom(id) == \E k \in deletedKeys : k[1] = id

----------------------------------------------------------------------------
(* C1 *)

\* C1 (idempotence): in every reachable state, once a generation pass has
\* been applied, a second pass with the same today creates no instance and
\* updates no template.
C1_Idempotent ==
    LET a == AfterPass(recurringExpenses, expenses, Today, nextId)
        b == Generate(a.templates, a.expenses, Today, a.nextId)
    IN  b.newExpenses = <<>> /\ b.templatesToUpdate = <<>>

----------------------------------------------------------------------------
(* C2 *)

\* C2 (uniqueness): in every reachable state no two expenses reference the
\* same template with the same date.
C2_UniquePerDate ==
    \A i, j \in 1..Len(expenses) :
        (/\ expenses[i].recurringExpenseId # 0
         /\ expenses[i].recurringExpenseId = expenses[j].recurringExpenseId
         /\ expenses[i].date = expenses[j].date) => i = j

\* a pass has just met an occurrence that was due and already present (the
\* duplicate check was decisive), after a deletion, with several instances
\* of the template in the collection
C2_Witness ==
    /\ last.op = "generate"
    /\ deletedKeys # {}
    /\ \E i \in TemplateIndices :
        LET t == last.templates[i]
            due == calculateNextDueDate(t, parseDate(t.lastGeneratedDate))
        IN  /\ t.lastGeneratedDate # 0
            /\ due # NullDate /\ due <= Today
            /\ SomeInstance(last.expenses, t.id, toYYYYMMDD(due))
            /\ Cardinality(InstancesOf(expenses, t.id)) >= 2

----------------------------------------------------------------------------
(* C3 *)

\* C3 (count bound): for a template limited to N >= 1 occurrences, the
\* number of instances ever created for it never exceeds N.
C3_CountBound ==
    \A i \in TemplateIndices :
        LET t == recurringExpenses[i]
        IN  (t.recurrenceEndType = "count" /\ t.recurrenceCount >= 1)
                => createdCount[t.id] <= t.recurrenceCount

----------------------------------------------------------------------------
(* C4 *)

\* C4 (date bound): for a template that ends on date D, no instance that
\* references it is dated after D.
C4_DateBound ==
    \A i \in TemplateIndices :
        LET t == recurringExpenses[i]
        IN  (t.recurrenceEndType = "date" /\ t.recurrenceEndDate # 0)
                => \A d \in DatesOf(expenses, t.id) : d <= t.recurrenceEndDate

\* a pass has created instances and stopped at an occurrence that was due
\* but lies after the end date
C4_Witness ==
    /\ last.op = "generate"
    /\ \E i \in TemplateIndices :
        LET t == recurringExpenses[i]
            due == calculateNextDueDate(t, parseDate(t.lastGeneratedDate))
        IN  /\ t.recurrenceEndType = "date" /\ t.recurrenceEndDate # 0
            /\ Len(expenses) > Len(last.expenses)
            /\ t.lastGeneratedDate # 0
            /\ due # NullDate /\ due <= Today
            /\ toYYYYMMDD(due) > t.recurrenceEndDate

----------------------------------------------------------------------------
(* C5 *)

\* the local calendar day that follows day d under the template's rule
NextDueDay(t, d) == LocalDay(calculateNextDueDate(t, LocalMidnight(d)))

\* the due days d, next(d), next(next(d)), ... that are <= lastDay
RECURSIVE DueDays(_, _, _)
DueDays(t, d, lastDay) ==
    IF d > lastDay THEN {} ELSE {d} \cup DueDays(t, NextDueDay(t, d), lastDay)

SetMax(S) == CHOOSE x \in S : \A y \in S : y <= x

\* C5 (no occurrence lost or shifted): for a template with a valid rule, no
\* end condition, an unset cursor and start date d0 <= today, one pass
\* creates exactly one instance per due date d0, next(d0), ... <= today, the
\* first dated d0, and sets lastGeneratedDate to the last of them.
C5_NoOccurrenceLostOrShifted ==
    \A i \in TemplateIndices :
        LET t == recurringExpenses[i]
            a == AfterPass(recurringExpenses, expenses, Today, nextId)
            due == DueDays(t, t.date, clockDay)
        IN  (/\ ValidRule(t) /\ NoEnd(t)
             /\ t.lastGeneratedDate = 0
             /\ t.date # 0 /\ t.date <= clockDay)
            => /\ DatesOf(a.newExpenses, t.id) = due
               /\ Cardinality(InstancesOf(a.newExpenses, t.id)) = Cardinality(due)
               /\ t.date \in DatesOf(a.newExpenses, t.id)
               /\ a.templates[i].lastGeneratedDate = SetMax(due)

----------------------------------------------------------------------------
(* C6 *)

\* C6 (cursor monotonicity): no operation moves a template's set
\* lastGeneratedDate backwards or unsets it.
C6_CursorMonotonic ==
    \A i \in TemplateIndices :
        last.templates[i].lastGeneratedDate # 0
            => recurringExpenses[i].lastGeneratedDate >= last.templates[i].lastGeneratedDate

\* a pass has just moved a cursor that was already set
C6_Witness ==
    /\ last.op = "generate"
    /\ \E i \in TemplateIndices :
        /\ last.templates[i].lastGeneratedDate # 0
        /\ recurringExpenses[i].lastGeneratedDate > last.templates[i].lastGeneratedDate

----------------------------------------------------------------------------
(* C7 *)

\* C7 as claimed (cursor refers to an instance): every template's
\* lastGeneratedDate is unset or the date of an expense that references it.
C7_CursorRefersToInstance ==
    \A i \in TemplateIndices :
        LET t == recurringExpenses[i]
        IN  t.lastGeneratedDate = 0 \/ SomeInstance(expenses, t.id, t.lastGeneratedDate)

\* C7 as amended: every template's lastGeneratedDate is unset, or the date of
\* an expense that references it, or the date of an instance of it that the
\* user has deleted.
C7_CursorRefersToInstanceOrDeleted ==
    \A i \in TemplateIndices :
        LET t == recurringExpenses[i]
        IN  \/ t.lastGeneratedDate = 0
            \/ SomeInstance(expenses, t.id, t.lastGeneratedDate)
            \/ <<t.id, t.lastGeneratedDate>> \in deletedKeys

\* a cursor whose instance the user has deleted, beside one that a later
\* pass has moved to a new instance
C7_Witness ==
    /\ last.op = "generate"
    /\ \E i \in TemplateIndices :
        LET t == recurringExpenses[i]
        IN  /\ DeletedFrom(t.id)
            /\ t.lastGeneratedDate # 0
            /\ t.lastGeneratedDate # last.templates[i].lastGeneratedDate
            /\ SomeInstance(expenses, t.id, t.lastGeneratedDate)

----------------------------------------------------------------------------
(* C8 *)

\* the cursor agrees with the instances of template t
CursorConsistent(t) ==
    IF InstancesOf(expenses, t.id) = {} THEN t.lastGeneratedDate = 0
    ELSE t.lastGeneratedDate = SetMax(DatesOf(expenses, t.id))

----------------------------------------------------------------------------
(* C10 *)

\* C10 (shape of an instance): every expense that references a template is
\* single, has an id of its own and carries no recurrence field.
C10_InstanceShape ==
    \A i \in 1..Len(expenses) :
        LET e == expenses[i]
        IN  e.recurringExpenseId # 0
            => /\ e.frequency = "single"
               /\ \E j \in TemplateIndices : recurringExpenses[j].id = e.recurringExpenseId
               /\ e.id # e.recurringExpenseId
               /\ e.recurrence = ""
               /\ e.recurrenceInterval = 0
               /\ e.recurrenceEndType = ""
               /\ e.recurrenceEndDate = 0
               /\ e.recurrenceCount = 0
               /\ e.lastGeneratedDate = 0

----------------------------------------------------------------------------
(* C9 *)

\* C9 (termination of the per-template loop): for a template with a
\* recognised unit every iteration that does not break moves nextDue to a
\* strictly later instant, and every loop that is entered is left.
C9_LoopTerminates ==
    /\ [][(WhileStep /\ ValidRule(recurringExpenses[run.i]) /\ ~run'.st.broke)
            => run'.st.nextDue > run.st.nextDue]_vars
    /\ (pc = "while") ~> (pc = "forEach")

\* a loop for a template with a recognised unit is about to run its third
\* iteration or a later one
C9_Witness ==
    /\ pc = "while"
    /\ ValidRule(recurringExpenses[run.i])
    /\ Len(run.st.newExpenses) >= 2
    /\ ~run.st.broke
    /\ LoopTest(run.st, run.today)

----------------------------------------------------------------------------
(* C11 *)

\* template t with its cursor blanked: every field but lastGeneratedDate
WithoutCursor(t) == [t EXCEPT !.lastGeneratedDate = 0]

\* C11 (frame of a pass): a generation pass keeps every expense that existed
\* before it, unchanged and in order, behind the instances it adds; it keeps
\* the number and order of the templates, and changes no field of a template
\* other than lastGeneratedDate.
C11_PassFrame ==
    last.op = "generate" =>
        /\ Len(expenses) >= Len(last.expenses)
        /\ SubSeq(expenses, Len(expenses) - Len(last.expenses) + 1, Len(expenses))
              = last.expenses
        /\ Len(recurringExpenses) = Len(last.templates)
        /\ \A i \in TemplateIndices :
              WithoutCursor(recurringExpenses[i]) = WithoutCursor(last.templates[i])

\* a pass that met existing expenses has added instances and moved a cursor
C11_Witness ==
    /\ last.op = "generate"
    /\ Len(last.expenses) > 0
    /\ Len(expenses) > Len(last.expenses)
    /\ \E i \in TemplateIndices :
          recurringExpenses[i].lastGeneratedDate # last.templates[i].lastGeneratedDate

----------------------------------------------------------------------------
(* C12 *)

\* how many days after today the resumed pass runs
ResumeDays == {0, 1, 7}

\* C12 (resumption equivalence): from every reachable state and for every
\* today2 >= today, a pass with today followed by a pass with today2 leaves
\* each template with the same set of instance dates and the same
\* lastGeneratedDate as a single pass with today2.
C12_ResumptionEquivalence ==
    pc = "idle" =>
        \A first \in {AfterPass(recurringExpenses, expenses, Today, nextId)} :
            \A k \in ResumeDays :
                \A resumed \in {AfterPass(first.templates, first.expenses,
                                          LocalMidnight(clockDay + k), first.nextId)},
                   single \in {AfterPass(recurringExpenses, expenses,
                                         LocalMidnight(clockDay + k), nextId)} :
                    \A i \in TemplateIndices :
                        /\ DatesOf(resumed.expenses, recurringExpenses[i].id)
                              = DatesOf(single.expenses, recurringExpenses[i].id)
                        /\ resumed.templates[i].lastGeneratedDate
                              = single.templates[i].lastGeneratedDate

----------------------------------------------------------------------------
(* C13 *)

\* template id and date of each instance a pass creates
NewKeys(newExpenses) ==
    {<<newExpenses[j].recurringExpenseId, newExpenses[j].date>> : j \in 1..Len(newExpenses)}

\* the last operation was confirmDelete and it removed a generated instance
InstanceJustDeleted ==
    /\ last.op = "delete"
    /\ \E j \in 1..Len(last.expenses) :
          /\ last.expenses[j].recurringExpenseId # 0
          /\ \A i \in 1..Len(expenses) : expenses[i].id # last.expenses[j].id

\* C13 (deletion leaves generation alone): right after the user has deleted a
\* generated instance, no template's lastGeneratedDate has changed, and a pass
\* run today or on a later day creates instances for the same templates and
\* dates as it would have created had the instance not been deleted.
C13_DeletionLeavesGenerationAlone ==
    InstanceJustDeleted =>
        /\ recurringExpenses = last.templates
        /\ \A k \in ResumeDays :
              \A after \in {Generate(recurringExpenses, expenses,
                                     LocalMidnight(clockDay + k), nextId)},
                 kept \in {Generate(recurringExpenses, last.expenses,
                                    LocalMidnight(clockDay + k), nextId)} :
                  NewKeys(after.newExpenses) = NewKeys(kept.newExpenses)

----------------------------------------------------------------------------
(* C14 *)

\* the instances of deleted dates that the pass just applied found missing
MissingBeforePass ==
    {k \in deletedKeys : ~SomeInstance(last.expenses, k[1], k[2])}

\* the cursor of template id before the pass just applied (0: unset or no such template)
CursorBeforePass(id) ==
    IF \E i \in 1..Len(last.templates) : last.templates[i].id = id
    THEN (CHOOSE t \in {last.templates[i] : i \in 1..Len(last.templates)} :
              t.id = id).lastGeneratedDate
    ELSE 0

\* C14 as claimed (regeneration): once the user has deleted a generated
\* instance, a later generation pass leaves an instance of the same template
\* and date in the expenses.
C14_DeletedInstanceRegenerated ==
    last.op = "generate" =>
        \A k \in deletedKeys : SomeInstance(expenses, k[1], k[2])

\* C14 as amended (no regeneration): a generation pass does not re-create an
\* instance the user has deleted when its date is before the template's
\* lastGeneratedDate, nor, in a zone at or west of UTC, when its date is the
\* lastGeneratedDate itself: the pass resumes after the cursor.
C14_DeletedInstanceNotRegenerated ==
    last.op = "generate" =>
        \A k \in MissingBeforePass :
            (tz <= 0 \/ k[2] < CursorBeforePass(k[1]))
                => ~SomeInstance(expenses, k[1], k[2])

\* a pass that found a deleted instance missing has created later instances
\* of its template and has not re-created the deleted one
C14_Witness ==
    /\ last.op = "generate"
    /\ \E k \in MissingBeforePass :
          /\ ~SomeInstance(expenses, k[1], k[2])
          /\ \E i \in 1..(Len(expenses) - Len(last.expenses)) :
                /\ expenses[i].recurringExpenseId = k[1]
                /\ expenses[i].date > k[2]

----------------------------------------------------------------------------
(* C15 *)

\* ids present in a collection
IdsOf(xs) == {xs[i].id : i \in 1..Len(xs)}

\* the last operation was a form submission that converted a template
JustConverted ==
    /\ last.op = "submit"
    /\ IsConversion(lastSubmit.editingRecurringExpense, lastSubmit.data)

\* C15 (result of a conversion): when the form of a template under edit is
\* submitted with a frequency other than recurring, the template is no longer
\* in the template collection and exactly one expense has been added; its id
\* is fresh, its frequency is single, and its recurrence, recurrenceInterval,
\* recurrenceEndType, recurrenceEndDate, recurrenceCount, lastGeneratedDate
\* and recurringExpenseId are cleared.
C15_ConversionResult ==
    JustConverted =>
        /\ lastSubmit.data.id \notin IdsOf(recurringExpenses)
        /\ Len(expenses) = Len(last.expenses) + 1
        /\ IdsOf(expenses) \ IdsOf(last.expenses) = {expenses[1].id}
        /\ expenses[1].id \notin IdsOf(last.templates) \cup IdsOf(last.expenses)
        /\ expenses[1].frequency = "single"
        /\ expenses[1].recurrence = ""
        /\ expenses[1].recurrenceInterval = 0
        /\ expenses[1].recurrenceEndType = ""
        /\ expenses[1].recurrenceEndDate = 0
        /\ expenses[1].recurrenceCount = 0
        /\ expenses[1].lastGeneratedDate = 0
        /\ expenses[1].recurringExpenseId = 0

\* a template that had generated instances has been converted
C15_Witness ==
    /\ JustConverted
    /\ lastSubmit.data.id \in IdsOf(last.templates)
    /\ lastSubmit.data.lastGeneratedDate # 0
    /\ lastSubmit.data.recurrenceEndType = "count"
    /\ CountFor(last.expenses, lastSubmit.data.id) > 0

----------------------------------------------------------------------------
(* C16 *)

\* C16 (frame of a conversion): converting a template into a single expense
\* leaves every expense that existed before, the template's instances
\* included, unchanged and in order behind the new expense, and leaves every
\* other template unchanged and in order.
C16_ConversionFrame ==
    JustConverted =>
        /\ SubSeq(expenses, 2, Len(expenses)) = last.expenses
        /\ \A i \in 1..Len(last.expenses) :
              last.expenses[i].recurringExpenseId = lastSubmit.data.id
                  => \E j \in 1..Len(expenses) : expenses[j] = last.expenses[i]
        /\ recurringExpenses
              = SelectSeq(last.templates, LAMBDA t : t.id # lastSubmit.data.id)

\* a template with instances has been converted while another template,
\* with instances of its own, stood beside it
C16_Witness ==
    /\ JustConverted
    /\ CountFor(last.expenses, lastSubmit.data.id) > 0
    /\ Len(last.templates) = 2
    /\ Len(recurringExpenses) = 1
    /\ CountFor(expenses, recurringExpenses[1].id) > 0

----------------------------------------------------------------------------
(* C17 *)

\* the instances the pass just applied has added
AddedByPass == {expenses[i] : i \in 1..(Len(expenses) - Len(last.expenses))}

\* C17 (future occurrences cease): once a template has been removed, by a
\* conversion or by deleteRecurringExpense, no generation pass creates an
\* expense that references it, whatever the day of the pass.
C17_NoInstanceAfterRemoval ==
    last.op = "generate" =>
        \A e \in AddedByPass : e.recurringExpenseId \notin removedIds

\* on a day after a template with instances was removed, with an occurrence
\* of it due, a pass has created instances for the remaining template only
C17_Witness ==
    /\ last.op = "generate"
    /\ AddedByPass # {}
    /\ \E id \in removedIds :
          /\ CountFor(expenses, id) > 0
          /\ \A i \in InstancesOf(expenses, id) : expenses[i].date < clockDay

----------------------------------------------------------------------------
(* C18 *)

\* the last operation was the submission, with a frequency other than
\* recurring, of the form opened on a generated instance
InstanceSubmittedAsSingle ==
    /\ last.op = "submit"
    /\ lastSubmit.editingExpense.id # 0
    /\ lastSubmit.editingExpense.recurringExpenseId # 0
    /\ lastSubmit.data.id = lastSubmit.editingExpense.id
    /\ lastSubmit.data.frequency # "recurring"

\* the last operation was the submission, with a frequency other than
\* recurring, of the form opened on a template
TemplateSubmittedAsSingle ==
    /\ last.op = "submit"
    /\ lastSubmit.editingRecurringExpense.id # 0
    /\ lastSubmit.data.id = lastSubmit.editingRecurringExpense.id
    /\ lastSubmit.data.frequency # "recurring"

\* C18 as claimed (detach trigger): when a generated instance is edited in
\* the form and submitted with a frequency other than recurring, its
\* originating template is deleted and the instance's recurringExpenseId is
\* cleared.
C18_InstanceEditDetaches ==
    InstanceSubmittedAsSingle =>
        /\ lastSubmit.editingExpense.recurringExpenseId \notin IdsOf(recurringExpenses)
        /\ \A i \in 1..Len(expenses) :
              expenses[i].id = lastSubmit.data.id => expenses[i].recurringExpenseId = 0

\* C18 as amended (detach trigger): a form submission removes a template
\* exactly when the form was opened on that template and is submitted with a
\* frequency other than recurring, and the expense it then adds has no
\* recurringExpenseId; the submission of an edited instance with a frequency
\* other than recurring removes no template and replaces the instance by the
\* submitted data.
C18_TemplateEditDetaches ==
    last.op = "submit" =>
        /\ IdsOf(last.templates) \ IdsOf(recurringExpenses)
              = IF TemplateSubmittedAsSingle
                THEN {lastSubmit.data.id} \cap IdsOf(last.templates) ELSE {}
        /\ TemplateSubmittedAsSingle => expenses[1].recurringExpenseId = 0
        /\ InstanceSubmittedAsSingle =>
              /\ recurringExpenses = last.templates
              /\ Len(expenses) = Len(last.expenses)
              /\ \A i \in 1..Len(expenses) :
                    expenses[i] = IF last.expenses[i].id = lastSubmit.data.id
                                  THEN lastSubmit.data ELSE last.expenses[i]

\* an edited instance has been submitted as a single expense: its template
\* is still in the collection and the instance still references it
C18_Witness ==
    /\ InstanceSubmittedAsSingle
    /\ lastSubmit.editingExpense.recurringExpenseId \in IdsOf(recurringExpenses)
    /\ \E i \in 1..Len(expenses) :
          /\ expenses[i].id = lastSubmit.data.id
          /\ expenses[i].recurringExpenseId = lastSubmit.editingExpense.recurringExpenseId
          /\ expenses[i].amount # lastSubmit.editingExpense.amount

----------------------------------------------------------------------------
(* C19 *)

\* the last known position of template t: lastGeneratedDate, else date
Position(t) == IF t.lastGeneratedDate # 0 THEN t.lastGeneratedDate ELSE t.date

\* the position does not exceed the end date and the next due date computed
\* from it exists and is <= the end date
WithinEndDate(t) ==
    /\ Position(t) <= t.recurrenceEndDate
    /\ ValidRule(t)
    /\ NextDueDay(t, Position(t)) <= t.recurrenceEndDate

\* the filter's result as claimed
KeptAsClaimed(t) ==
    CASE t.recurrenceEndType \in {"", "forever"} -> TRUE
      [] t.recurrenceEndType = "count" ->
            \/ CountFor(expenses, t.id) < t.recurrenceCount
            \/ t.recurrenceCount <= 0
      [] t.recurrenceEndType = "date" -> WithinEndDate(t)

\* the filter's result as amended: a date-ended template without an end date,
\* or without any position, is kept
KeptAsAmended(t) ==
    CASE t.recurrenceEndType \in {"", "forever"} -> TRUE
      [] t.recurrenceEndType = "count" ->
            \/ CountFor(expenses, t.id) < t.recurrenceCount
            \/ t.recurrenceCount <= 0
      [] t.recurrenceEndType = "date" ->
            \/ t.recurrenceEndDate = 0
            \/ Position(t) = 0
            \/ WithinEndDate(t)

\* C19 as claimed (result of the active-template filter): the list the screen
\* computes keeps a template iff: end type forever or unset, always; count,
\* fewer expenses reference it than recurrenceCount, or recurrenceCount is
\* absent or non-positive; date, its position (lastGeneratedDate, else date)
\* does not exceed recurrenceEndDate and the next due date from that position
\* is <= recurrenceEndDate.
C19_FilterResult ==
    last.op = "render" =>
        activeRecurringExpenses = SelectSeq(recurringExpenses, KeptAsClaimed)

\* C19 as amended: as claimed, and a template with end type date is also
\* kept when its recurrenceEndDate is absent or when it has neither
\* lastGeneratedDate nor date.
C19_FilterResultWithAbsentDates ==
    last.op = "render" =>
        activeRecurringExpenses = SelectSeq(recurringExpenses, KeptAsAmended)

\* the screen has hidden a template: one that has reached its count, or one
\* whose next due date from the cursor is past its end date
C19_Witness ==
    /\ last.op = "render"
    /\ activeRecurringExpenses = <<>>
    /\ \E i \in TemplateIndices :
          LET t == recurringExpenses[i]
          IN  \/ /\ t.recurrenceEndType = "count"
                 /\ t.recurrenceCount = 2
                 /\ CountFor(expenses, t.id) = 2
              \/ /\ t.recurrenceEndType = "date"
                 /\ t.lastGeneratedDate # 0
                 /\ t.lastGeneratedDate <= t.recurrenceEndDate

----------------------------------------------------------------------------
(* C20 *)

\* Following the loop of template t from due date nextDue with no bound on
\* today: the loop reaches an occurrence it would create (no stop test holds
\* and no instance has its date) before it stops.
RECURSIVE CreatesFrom(_, _)
CreatesFrom(t, nextDue) ==
    IF nextDue = NullDate THEN FALSE
    ELSE IF EndDateReached(t, nextDue) THEN FALSE
    ELSE IF CountReached(t, CountFor(expenses, t.id)) THEN FALSE
    ELSE IF ~SomeInstance(expenses, t.id, toYYYYMMDD(nextDue)) THEN TRUE
    ELSE CreatesFrom(t, calculateNextDueDate(t, nextDue))

\* template t is not exhausted: a generation pass run on some later day
\* would create a new instance for it
WillCreate(t) ==
    /\ t.date # 0
    /\ CreatesFrom(t, LoopEntry(t, <<>>, nextId).nextDue)

\* C20 (the filter mirrors generation): in every state a generation pass
\* has settled, the filter hides a template with a start date and a
\* recognised unit if and only if no generation pass on any later day would
\* create a new instance for it.
C20_FilterMirrorsGeneration ==
    last.op = "generate" =>
        \A i \in TemplateIndices :
            LET t == recurringExpenses[i]
            IN  (t.date # 0 /\ ValidRule(t)) => (IsActive(t, expenses) <=> WillCreate(t))

----------------------------------------------------------------------------
(* C21 *)

\* the templates of a list that have a start date
Dated(templates) == SelectSeq(templates, LAMBDA t : t.date # 0)

\* C21 (template without start date): a generation pass creates no instance
\* for a template that has no start date and leaves it unchanged, and what it
\* does to the expenses and to the other templates is what a pass over the
\* list without that template does.
C21_DatelessTemplateSkipped ==
    last.op = "generate" =>
        \A alone \in {AfterPass(Dated(last.templates), last.expenses, Today,
                                nextId - (Len(expenses) - Len(last.expenses)))} :
            /\ \A i \in 1..Len(last.templates) :
                  last.templates[i].date = 0 =>
                      /\ recurringExpenses[i] = last.templates[i]
                      /\ \A e \in AddedByPass :
                            e.recurringExpenseId # last.templates[i].id
            /\ expenses = alone.expenses
            /\ Dated(recurringExpenses) = alone.templates

\* a pass over a list whose first template has no start date has created
\* instances for the template after it and moved that template's cursor
C21_Witness ==
    /\ last.op = "generate"
    /\ Len(last.templates) = 2
    /\ last.templates[1].date = 0
    /\ last.templates[1].lastGeneratedDate # 0
    /\ CountFor(expenses, last.templates[1].id) = 0
    /\ Cardinality({e \in AddedByPass : e.recurringExpenseId = last.templates[2].id}) >= 2
    /\ recurringExpenses[2].lastGeneratedDate # last.templates[2].lastGeneratedDate

----------------------------------------------------------------------------
(* C22 *)

\* the unit of template t is absent or not one of the four the evaluator knows
NoUnit(t) == t.recurrence \notin {"daily", "weekly", "monthly", "yearly"}

\* the dates handed to the rule evaluator: local midnights of a first, a
\* last and a leap day of a month
FromDates ==
    {LocalMidnight(d) : d \in {DayNumber(2024, 1, 1), DayNumber(2024, 1, 31),
                               DayNumber(2024, 2, 29), DayNumber(2024, 12, 31)}}

\* template ids and dates of the instances the pass just applied has added,
\* for the templates other than id
AddedForOthers(id) ==
    {<<e.recurringExpenseId, e.date>> : e \in {x \in AddedByPass : x.recurringExpenseId # id}}

\* what a pass over the list without template id adds, and the templates it leaves
PassWithout(id) ==
    AfterPass(SelectSeq(last.templates, LAMBDA t : t.id # id), last.expenses, Today, nextId)

----------------------------------------------------------------------------
(* C23 *)

\* the ids of the templates the last operation took out of the collection
JustRemoved == IdsOf(last.templates) \ IdsOf(recurringExpenses)

\* C23 (frame of a template deletion): deleteRecurringExpense takes exactly
\* one template out of the collection, the one it was called for, keeps the
\* others unchanged and in order, and leaves the expense collection as it
\* was, the instances generated from the deleted template included.
C23_TemplateDeletionFrame ==
    last.op = "deleteRecurring" =>
        /\ Cardinality(JustRemoved) = 1
        /\ JustRemoved \subseteq removedIds
        /\ recurringExpenses = SelectSeq(last.templates, LAMBDA t : t.id \notin JustRemoved)
        /\ expenses = last.expenses

\* a template with generated instances has been deleted while another
\* template, with instances of its own, stood beside it; the instances of
\* both are still there
C23_Witness ==
    /\ last.op = "deleteRecurring"
    /\ Len(last.templates) = 2
    /\ Len(recurringExpenses) = 1
    /\ \E id \in JustRemoved : CountFor(expenses, id) >= 1
    /\ CountFor(expenses, recurringExpenses[1].id) >= 1
    /\ Len(expenses) >= 3

----------------------------------------------------------------------------
(* C24 *)

\* existing plus already-queued instances of the template the loop is in
TotalGenerated ==
    CountFor(expenses, recurringExpenses[run.i].id)
        + CountFor(run.st.newExpenses, recurringExpenses[run.i].id)

\* the stop decision as claimed, at the candidate due date the loop holds
StopsAsClaimed ==
    LET t == recurringExpenses[run.i]
    IN  \/ /\ t.recurrenceEndType = "date"
           /\ toYYYYMMDD(run.st.nextDue) > t.recurrenceEndDate
        \/ /\ t.recurrenceEndType = "count"
           /\ TotalGenerated >= t.recurrenceCount

\* the stop decision as amended: an absent end date or count stops nothing
StopsAsAmended ==
    LET t == recurringExpenses[run.i]
    IN  \/ /\ t.recurrenceEndType = "date"
           /\ t.recurrenceEndDate # 0
           /\ toYYYYMMDD(run.st.nextDue) > t.recurrenceEndDate
        \/ /\ t.recurrenceEndType = "count"
           /\ t.recurrenceCount # 0
           /\ TotalGenerated >= t.recurrenceCount

\* C24 as claimed (termination decision): an iteration of the loop at
\* candidate due date d stops the generation for the template exactly when
\* the end type is date and the date string of d is greater than
\* recurrenceEndDate, or the end type is count and the existing plus the
\* already-queued instances of the template are at least recurrenceCount.
C24_StopDecision ==
    [][WhileStep => (run'.st.broke <=> StopsAsClaimed)]_vars

\* C24 as amended: as claimed, for an end date or a count that is set; with
\* end type date and no recurrenceEndDate, or end type count and no (or a
\* zero) recurrenceCount, the generation does not stop for this reason, as
\* with end type forever or unset.
C24_StopDecisionWhenSet ==
    [][WhileStep => (run'.st.broke <=> StopsAsAmended)]_vars

\* the loop has just stopped on the count, reached by an instance of an
\* earlier pass together with one queued in this pass
C24_Witness ==
    /\ pc = "while"
    /\ run.st.broke
    /\ recurringExpenses[run.i].recurrenceEndType = "count"
    /\ CountFor(expenses, recurringExpenses[run.i].id) = 1
    /\ CountFor(run.st.newExpenses, recurringExpenses[run.i].id) = 1

----------------------------------------------------------------------------
(* C25 *)

\* the interval N of template t: recurrenceInterval, 1 when absent or 0
IntervalN(t) == IF t.recurrenceInterval = 0 THEN 1 ELSE t.recurrenceInterval

\* the civil date with day-of-month day in month m of year y, or, when that
\* month is shorter, the date as many days into the following month as day
\* exceeds the month's length
RollInto(y, m, day) ==
    IF day <= DaysInMonth(y, m) THEN [y |-> y, m |-> m, d |-> day]
    ELSE IF m = 12 THEN [y |-> y + 1, m |-> 1, d |-> day - DaysInMonth(y, m)]
    ELSE [y |-> y, m |-> m + 1, d |-> day - DaysInMonth(y, m)]

\* civil date c advanced by n months
MonthsLater(c, n) ==
    LET months == c.y * 12 + (c.m - 1) + n
    IN  RollInto(months \div 12, (months % 12) + 1, c.d)

\* the local civil date the rule of t leads to from the local civil date of d
AdvancedCivil(t, d) ==
    LET c == Civil(LocalDay(d))
    IN  CASE t.recurrence = "daily" -> Civil(LocalDay(d) + IntervalN(t))
          [] t.recurrence = "weekly" -> Civil(LocalDay(d) + 7 * IntervalN(t))
          [] t.recurrence = "monthly" -> MonthsLater(c, IntervalN(t))
          [] t.recurrence = "yearly" -> RollInto(c.y + IntervalN(t), c.m, c.d)

\* r is the date the claim expects of the rule evaluator for t and d
AdvancedAsClaimed(t, d, r) ==
    /\ r # NullDate
    /\ Civil(LocalDay(r)) = AdvancedCivil(t, d)
    /\ LocalHour(r) = LocalHour(d)
    /\ t.recurrence = "daily" => r = d + 24 * IntervalN(t)
    /\ t.recurrence = "weekly" => r = d + 7 * 24 * IntervalN(t)
    /\ r > d

\* C25 (rule evaluator): for a template with frequency recurring, a
\* recognised unit and interval N (absent or 0 taken as 1),
\* calculateNextDueDate(template, d) is d + N days for daily, d + 7N days for
\* weekly, d advanced by N months for monthly and by N years for yearly (a
\* day the target month lacks rolling into the following month); the result
\* is strictly later than d; and the date handed in is not modified: after an
\* iteration of the loop the cursor still holds the due date the evaluator
\* was called with.
C25_RuleEvaluator ==
    /\ [](\A i \in TemplateIndices : \A d \in FromDates :
            ValidRule(recurringExpenses[i])
                => \A r \in {calculateNextDueDate(recurringExpenses[i], d)} :
                       AdvancedAsClaimed(recurringExpenses[i], d, r))
    /\ [][(WhileStep /\ ValidRule(recurringExpenses[run.i]) /\ ~run'.st.broke)
             => /\ AdvancedAsClaimed(recurringExpenses[run.i], run.st.nextDue, run'.st.nextDue)
                /\ run'.st.cursor = run.st.nextDue]_vars

\* the loop of a monthly template that starts on 2024-01-31 has just
\* advanced from the start date: the evaluator has rolled into March
C25_Witness ==
    /\ pc = "while"
    /\ recurringExpenses[run.i].recurrence = "monthly"
    /\ IntervalN(recurringExpenses[run.i]) = 1
    /\ run.st.cursor = LocalMidnight(DayNumber(2024, 1, 31))
    /\ run.st.nextDue = LocalMidnight(DayNumber(2024, 3, 2))

----------------------------------------------------------------------------
(* C26 *)

\* the occurrences of a monthly template that starts on 2024-01-31: January
\* 31st rolls over February into March 2nd, and the later ones follow from
\* the rolled date
RolledSequence ==
    {DayNumber(2024, 1, 31), DayNumber(2024, 3, 2), DayNumber(2024, 4, 2),
     DayNumber(2024, 5, 2), DayNumber(2024, 6, 2)}

\* C26 (monthly rollover): after a generation pass, a template that starts
\* on 2024-01-31 and recurs every month without end, none of whose instances
\* the user has deleted, has exactly the instances dated 2024-01-31,
\* 2024-03-02, 2024-04-02, ... up to today, and its cursor is the last of them.
C26_MonthlyRollover ==
    last.op = "generate" =>
        \A i \in TemplateIndices :
            LET t == recurringExpenses[i]
                due == {d \in RolledSequence : d <= clockDay}
            IN  (/\ t.date = DayNumber(2024, 1, 31)
                 /\ t.recurrence = "monthly" /\ IntervalN(t) = 1
                 /\ NoEnd(t) /\ ~DeletedFrom(t.id))
                => /\ DatesOf(expenses, t.id) = due
                   /\ Cardinality(InstancesOf(expenses, t.id)) = Cardinality(due)
                   /\ due # {} => t.lastGeneratedDate = SetMax(due)

----------------------------------------------------------------------------
(* C27 *)

\* an expense that references the loop's template and carries the date of
\* the candidate due date exists, in the collection or in this pass's queue
CandidatePresent ==
    LET t == recurringExpenses[run.i]
    IN  \/ SomeInstance(expenses, t.id, toYYYYMMDD(run.st.nextDue))
        \/ SomeInstance(run.st.newExpenses, t.id, toYYYYMMDD(run.st.nextDue))

\* C27 (duplicate skip): an iteration of the loop that reaches the duplicate
\* check at a candidate due date for which an instance of the template is
\* already present queues nothing, moves the cursor and lastGeneratedDate to
\* that date, and goes on with the next due date computed from it; the run
\* stays in the loop (no error ends it).
C27_DuplicateSkipped ==
    [][(WhileStep /\ CandidatePresent /\ ~run'.st.broke)
          => /\ run'.st.newExpenses = run.st.newExpenses
             /\ run'.st.nextId = run.st.nextId
             /\ run'.st.cursor = run.st.nextDue
             /\ run'.st.lastGeneratedDate = toYYYYMMDD(run.st.nextDue)
             /\ run'.st.nextDue = calculateNextDueDate(recurringExpenses[run.i], run.st.nextDue)
             /\ pc' = "while"]_vars

\* the loop of a template whose cursor was set has run and queued nothing:
\* it has skipped an occurrence that was present, and a further occurrence
\* is due
C27_Witness ==
    /\ pc = "while"
    /\ ~run.st.broke
    /\ recurringExpenses[run.i].lastGeneratedDate # 0
    /\ run.st.cursor > parseDate(recurringExpenses[run.i].lastGeneratedDate)
    /\ run.st.newExpenses = <<>>
    /\ SomeInstance(expenses, recurringExpenses[run.i].id, run.st.lastGeneratedDate)
    /\ LoopTest(run.st, run.today)

----------------------------------------------------------------------------
(* C28 *)

\* the number of instances the pass just applied has added
NumAdded == Len(expenses) - Len(last.expenses)

\* position in the list the pass read of the template with this id
PositionOf(id) == CHOOSE i \in 1..Len(last.templates) : last.templates[i].id = id

\* C28 (applying a pass): the instances a pass adds stand before all the
\* expenses that existed, which keep their order; they stand in generation
\* order, template by template in the order of the template list and by
\* increasing date within a template.  The template collection keeps its
\* length and order: each template keeps its id and is either left as it was
\* or replaced by a copy that differs in lastGeneratedDate only.  The pass
\* reports a template as updated only if its lastGeneratedDate has changed,
\* and replaces exactly the templates it reports.
C28_PassApplied ==
    last.op = "generate" =>
        /\ SubSeq(expenses, NumAdded + 1, Len(expenses)) = last.expenses
        /\ \A p, q \in 1..NumAdded :
              p < q =>
                 \/ PositionOf(expenses[p].recurringExpenseId)
                        < PositionOf(expenses[q].recurringExpenseId)
                 \/ /\ expenses[p].recurringExpenseId = expenses[q].recurringExpenseId
                    /\ expenses[p].date < expenses[q].date
        /\ Len(recurringExpenses) = Len(last.templates)
        /\ \A r \in {Generate(last.templates, last.expenses, Today, nextId - NumAdded)} :
              /\ \A j \in 1..Len(r.templatesToUpdate) :
                    \E i \in 1..Len(last.templates) :
                       /\ r.templatesToUpdate[j].id = last.templates[i].id
                       /\ r.templatesToUpdate[j].lastGeneratedDate
                              # last.templates[i].lastGeneratedDate
              /\ \A i \in 1..Len(last.templates) :
                    /\ recurringExpenses[i].id = last.templates[i].id
                    /\ WithoutCursor(recurringExpenses[i]) = WithoutCursor(last.templates[i])
                    /\ (recurringExpenses[i] # last.templates[i])
                          <=> \E j \in 1..Len(r.templatesToUpdate) :
                                 r.templatesToUpdate[j] = recurringExpenses[i]

\* a pass that met existing expenses has added instances for both templates
\* of the list, several for the first, and has moved the cursor of both
C28_Witness ==
    /\ last.op = "generate"
    /\ Len(last.expenses) > 0
    /\ Len(last.templates) = 2
    /\ CountFor(SubSeq(expenses, 1, NumAdded), last.templates[1].id) >= 2
    /\ CountFor(SubSeq(expenses, 1, NumAdded), last.templates[2].id) >= 1
    /\ \A i \in 1..2 :
          recurringExpenses[i].lastGeneratedDate # last.templates[i].lastGeneratedDate

----------------------------------------------------------------------------
(* C29 *)

\* a run of the effect has reached its end and is about to request its updates
AtCommit == pc = "forEach" /\ run.i > Len(recurringExpenses)

\* the run has nothing to request: no instance to add, no template to replace
NothingToCommit == run.acc.newExpenses = <<>> /\ run.acc.templatesToUpdate = <<>>

\* C29 (reactive quiescence): the effect, re-run after each of its own
\* updates, comes after finitely many runs to runs that request no update:
\* once the clock and the user are at rest, from some run on every run of
\* the effect ends with nothing to add and no template to replace.
C29_ReactiveQuiescence == <>[](AtCommit => NothingToCommit)

\* on a day after the first, the re-run that follows a run which added
\* instances to existing ones and moved a cursor ends with nothing to request
C29_Witness ==
    /\ AtCommit
    /\ NothingToCommit
    /\ last.op = "generate"
    /\ Len(last.expenses) > 0
    /\ Len(expenses) > Len(last.expenses)
    /\ recurringExpenses # last.templates
    /\ clockDay > DayNumber(2024, 1, 1)

----------------------------------------------------------------------------
(* C30 *)

\* C30 (double execution): when the effect has run twice on the same
\* snapshot of expenses and templates and both runs' updates have been
\* applied, no two expenses reference the same template with the same date.
C30_NoDuplicatesUnderDoubleRun ==
    last.op = "generateTwice" =>
        \A i, j \in 1..Len(expenses) :
            (/\ expenses[i].recurringExpenseId # 0
             /\ expenses[i].recurringExpenseId = expenses[j].recurringExpenseId
             /\ expenses[i].date = expenses[j].date) => i = j

----------------------------------------------------------------------------
(* C31: date-string round trip *)

\* the date strings the round trip is applied to: the dates the current
\* state holds (template start dates, cursors, instance dates) and the
\* month and year boundaries of 2024
RoundTripDates ==
    {recurringExpenses[i].date : i \in TemplateIndices}
        \cup {recurringExpenses[i].lastGeneratedDate : i \in TemplateIndices}
        \cup {expenses[j].date : j \in 1..Len(expenses)}
        \cup {DayNumber(2024, 1, 1), DayNumber(2024, 2, 29),
              DayNumber(2024, 3, 1), DayNumber(2024, 12, 31)}

\* C31: for every calendar date string s and every UTC offset of the local
\* zone, formatting the parsed string gives the string back:
\* toYYYYMMDD(parseDate(s)) = s, so the date written for a due date is the
\* local calendar day of that due date.
C31_DateStringRoundTrip ==
    \A s \in RoundTripDates \ {0} :
        /\ toYYYYMMDD(parseDate(s)) = s
        /\ toYYYYMMDD(parseDate(s)) = LocalDay(parseDate(s))

----------------------------------------------------------------------------
(* C32: the two collections partition the records by frequency *)

\* the last operation was the submission, with frequency recurring, of the
\* form opened on a generated instance
InstanceSubmittedAsRecurring ==
    /\ last.op = "submit"
    /\ lastSubmit.editingExpense.id # 0
    /\ lastSubmit.editingExpense.recurringExpenseId # 0
    /\ lastSubmit.data.id = lastSubmit.editingExpense.id
    /\ lastSubmit.data.frequency = "recurring"

\* C32 (collection partition): after any sequence of form submissions,
\* generation passes, deletions and conversions, no record of the expense
\* collection has frequency recurring, every record of the template
\* collection has frequency recurring, and no template has
\* recurringExpenseId set.
C32_CollectionPartition ==
    /\ \A j \in 1..Len(expenses) : expenses[j].frequency # "recurring"
    /\ \A i \in TemplateIndices :
          /\ recurringExpenses[i].frequency = "recurring"
          /\ recurringExpenses[i].recurringExpenseId = 0

\* an instance was edited and submitted as recurring while templates and
\* generated instances exist
C32_Witness ==
    /\ InstanceSubmittedAsRecurring
    /\ Len(recurringExpenses) >= 1
    /\ \E j \in 1..Len(expenses) : expenses[j].recurringExpenseId # 0

----------------------------------------------------------------------------
(* The login screen (LoginScreen component)                                  *)
(*                                                                           *)
(* A handler and the effects of the render it causes form one action: React  *)
(* flushes the passive effects of a commit before the next event is handled. *)
(* What follows an await is a separate action.  The biometrics service and   *)
(* the login API are collaborators: their answers are inputs.                *)

\* login requests explored
MaxLogins == 2
\* auto-prompt effect runs that pass the guards, explored
MaxPrompts == 2
\* instances of the screen explored
MaxMounts == 2

\* the PIN length that triggers the verification
PinLength == 4

Emails == {"a", "A", "b"}

\* email.toLowerCase()
ToLowerCase(email) == IF email = "A" THEN "a" ELSE email

\* hasAutoPromptLock: the item is '1'; false when sessionStorage throws
hasAutoPromptLock == IF storageFails THEN FALSE ELSE sessionLock = "1"

\* setAutoPromptLock: the item becomes '1'; nothing when sessionStorage throws
setAutoPromptLock == IF storageFails THEN sessionLock ELSE "1"

\* the early returns of the auto-prompt effect, for the rendered values
AutoPromptStarts(email, supported, enabled, started) ==
    /\ email # ""
    /\ supported /\ enabled
    /\ ~started
    /\ ~hasAutoPromptLock

\* the auto-prompt effect of a render with these values: past its guards
\* it sets the ref and the lock and starts its async block
AutoPromptEffect(email, supported, enabled, started) ==
    IF AutoPromptStarts(email, supported, enabled, started)
    THEN /\ Len(prompts) + autoPrompts < MaxPrompts
         /\ autoStartedRef' = TRUE
         /\ sessionLock' = setAutoPromptLock
         /\ prompts' = Append(prompts, [instance |-> instance, email |-> email,
                                        stage |-> "import"])
    ELSE /\ autoStartedRef' = started
         /\ UNCHANGED <<sessionLock, prompts>>

\* variant: the verification starts while another one is loading
PinVerifyStarts_unguarded(email, newPin, loading) ==
    /\ Len(newPin) = PinLength
    /\ email # ""

\* the PIN effect calls handlePinVerify, which passes its guard
PinVerifyStarts(email, newPin, loading) ==
    /\ Len(newPin) = PinLength
    /\ email # ""
    /\ ~loading

\* the PIN effect of a render with these values, and handlePinVerify up to
\* its await
PinEffect(email, newPin, newError) ==
    IF PinVerifyStarts(email, newPin, isLoading)
    THEN /\ numLogins < MaxLogins
         /\ isLoading' = TRUE
         /\ error' = ""
         /\ requests' = requests \cup {[n |-> numLogins + 1, instance |-> instance,
                                        email |-> email, pin |-> newPin]}
         /\ numLogins' = numLogins + 1
    ELSE /\ error' = newError
         /\ UNCHANGED <<isLoading, requests, numLogins>>

\* handleEmailSubmit(email), from the email screen
HandleEmailSubmit(email) ==
    /\ mounted
    /\ activeEmail = ""
    /\ email # ""
    /\ activeEmail' = ToLowerCase(email)
    /\ statusPending' = TRUE
    /\ AutoPromptEffect(ToLowerCase(email), bioSupported, bioEnabled, autoStartedRef)
    /\ PinEffect(ToLowerCase(email), pin, "")
    /\ UNCHANGED <<outsideLogin, mounted, instance, pin, bioSupported, bioEnabled, storageFails,
                   timers, autoPrompts, loginSuccess>>

\* PinInput's onPinChange(newPin), from the PIN screen: a digit more or less
PinChange(newPin) ==
    /\ mounted
    /\ activeEmail # ""
    /\ pin' = newPin
    /\ PinEffect(activeEmail, newPin, error)
    /\ UNCHANGED <<outsideLogin, mounted, instance, activeEmail, bioSupported, bioEnabled,
                   autoStartedRef, statusPending, sessionLock, storageFails, timers,
                   prompts, autoPrompts, loginSuccess>>

\* the pins one key press away from pin
PinEdits ==
    (IF Len(pin) < PinLength THEN {Append(pin, 1)} ELSE {})
        \cup (IF Len(pin) > 0 THEN {SubSeq(pin, 1, Len(pin) - 1)} ELSE {})

\* the awaited login(activeEmail, pin) answers
LoginResponse(req, success) ==
    /\ req \in requests
    /\ requests' = requests \ {req}
    /\ IF success
       THEN /\ loginSuccess' = [email |-> req.email, active |-> activeEmail, by |-> "pin"]
            /\ UNCHANGED <<error, timers>>
       ELSE /\ error' = IF mounted /\ req.instance = instance THEN "message" ELSE error
            /\ timers' = timers \cup {[n |-> req.n, instance |-> req.instance]}
            /\ UNCHANGED loginSuccess
    /\ UNCHANGED <<outsideLogin, mounted, instance, activeEmail, pin, isLoading, bioSupported,
                   bioEnabled, autoStartedRef, statusPending, sessionLock, storageFails,
                   prompts, numLogins, autoPrompts>>

\* the callback of setTimeout(..., 1500) runs
TimerFires(t) ==
    /\ t \in timers
    /\ timers' = timers \ {t}
    /\ IF mounted /\ t.instance = instance
       THEN pin' = <<>> /\ error' = "" /\ isLoading' = FALSE
       ELSE UNCHANGED <<pin, error, isLoading>>
    /\ UNCHANGED <<outsideLogin, mounted, instance, activeEmail, bioSupported, bioEnabled,
                   autoStartedRef, statusPending, sessionLock, storageFails, requests,
                   prompts, numLogins, autoPrompts, loginSuccess>>

\* the sequence without its element i
RemoveAt(seq, i) == SubSeq(seq, 1, i - 1) \o SubSeq(seq, i + 1, Len(seq))

\* the async block of the auto-prompt effect resumes after the dynamic import:
\* it returns if the prompt is snoozed, else it calls unlockWithBiometric
PromptBegins(i, snoozed) ==
    /\ i \in 1..Len(prompts)
    /\ prompts[i].stage = "import"
    /\ IF snoozed
       THEN prompts' = RemoveAt(prompts, i) /\ UNCHANGED autoPrompts
       ELSE /\ prompts' = [prompts EXCEPT ![i].stage = "prompt"]
            /\ autoPrompts' = autoPrompts + 1
    /\ UNCHANGED <<outsideLogin, mounted, instance, activeEmail, pin, error, isLoading,
                   bioSupported, bioEnabled, autoStartedRef, statusPending, sessionLock,
                   storageFails, requests, timers, numLogins, loginSuccess>>

\* the awaited unlockWithBiometric answers true or false, or throws
PromptEnds(i, outcome) ==
    /\ i \in 1..Len(prompts)
    /\ prompts[i].stage = "prompt"
    /\ prompts' = RemoveAt(prompts, i)
    /\ loginSuccess' = IF outcome = "ok"
                       THEN [email |-> prompts[i].email, active |-> activeEmail,
                             by |-> "biometric"]
                       ELSE loginSuccess
    /\ UNCHANGED <<outsideLogin, mounted, instance, activeEmail, pin, error, isLoading,
                   bioSupported, bioEnabled, autoStartedRef, statusPending, sessionLock,
                   storageFails, requests, timers, numLogins, autoPrompts>>

\* the async block of the biometric status effect resolves while its render
\* is current: the two flags are set and the auto-prompt effect runs again
BioStatusArrives(supported, enabled) ==
    /\ mounted
    /\ statusPending
    /\ statusPending' = FALSE
    /\ bioSupported' = supported
    /\ bioEnabled' = enabled
    /\ AutoPromptEffect(activeEmail, supported, enabled, autoStartedRef)
    /\ UNCHANGED <<outsideLogin, mounted, instance, activeEmail, pin, error, isLoading,
                   storageFails, requests, timers, numLogins, autoPrompts, loginSuccess>>

\* handleSwitchUser, from the PIN screen
HandleSwitchUser ==
    /\ mounted
    /\ activeEmail # ""
    /\ activeEmail' = ""
    /\ pin' = <<>>
    /\ error' = ""
    /\ autoStartedRef' = FALSE
    /\ statusPending' = TRUE
    /\ UNCHANGED <<outsideLogin, mounted, instance, isLoading, bioSupported, bioEnabled,
                   sessionLock, storageFails, requests, timers, prompts, numLogins,
                   autoPrompts, loginSuccess>>

\* the screen is unmounted (the user navigates away or is logged in)
Unmount ==
    /\ mounted
    /\ mounted' = FALSE
    /\ UNCHANGED <<outsideLogin, instance, activeEmail, pin, error, isLoading, bioSupported,
                   bioEnabled, autoStartedRef, statusPending, sessionLock, storageFails,
                   requests, timers, prompts, numLogins, autoPrompts, loginSuccess>>

\* a new instance of the screen is mounted: fresh state and ref, the stored
\* email and the session's storage as they are
Mount ==
    /\ ~mounted
    /\ instance < MaxMounts
    /\ mounted' = TRUE
    /\ instance' = instance + 1
    /\ pin' = <<>>
    /\ error' = ""
    /\ isLoading' = FALSE
    /\ bioSupported' = FALSE
    /\ bioEnabled' = FALSE
    /\ autoStartedRef' = FALSE
    /\ statusPending' = TRUE
    /\ UNCHANGED <<outsideLogin, activeEmail, sessionLock, storageFails, requests, timers,
                   prompts, numLogins, autoPrompts, loginSuccess>>

\* the login screen is mounted for the first time in a session; the App is
\* not shown
LoginInit ==
    /\ AppInit({<<>>})
    /\ Untouched
    /\ AtHome
    /\ Migrated
    /\ tz = 0
    /\ mounted = TRUE
    /\ instance = 1
    /\ activeEmail \in {"", "a"}
    /\ pin = <<>>
    /\ error = ""
    /\ isLoading = FALSE
    /\ bioSupported = FALSE
    /\ bioEnabled = FALSE
    /\ autoStartedRef = FALSE
    /\ statusPending = TRUE
    /\ sessionLock = ""
    /\ storageFails \in BOOLEAN
    /\ requests = {}
    /\ timers = {}
    /\ prompts = <<>>
    /\ numLogins = 0
    /\ autoPrompts = 0
    /\ loginSuccess = NoLogin

\* the steps of the PIN verification
PinNext ==
    \/ \E email \in Emails : HandleEmailSubmit(email)
    \/ \E newPin \in PinEdits : PinChange(newPin)
    \/ \E req \in requests, success \in BOOLEAN : LoginResponse(req, success)
    \/ \E t \in timers : TimerFires(t)
    \/ HandleSwitchUser

\* one mounted instance of the login screen, its PIN verification alone; a
\* scheduled timer callback runs
PinSpec == LoginInit /\ [][PinNext]_vars /\ WF_vars(\E t \in timers : TimerFires(t))

\* the steps of the biometric auto-prompt
PromptNext ==
    \/ \E email \in Emails : HandleEmailSubmit(email)
    \/ \E i \in 1..Len(prompts), snoozed \in BOOLEAN : PromptBegins(i, snoozed)
    \/ \E i \in 1..Len(prompts), outcome \in {"ok", "no", "throw"} : PromptEnds(i, outcome)
    \/ \E supported \in BOOLEAN, enabled \in BOOLEAN : BioStatusArrives(supported, enabled)
    \/ HandleSwitchUser

LoginNext ==
    \/ \E email \in Emails : HandleEmailSubmit(email)
    \/ \E newPin \in PinEdits : PinChange(newPin)
    \/ \E req \in requests, success \in BOOLEAN : LoginResponse(req, success)
    \/ \E t \in timers : TimerFires(t)
    \/ \E i \in 1..Len(prompts), snoozed \in BOOLEAN : PromptBegins(i, snoozed)
    \/ \E i \in 1..Len(prompts), outcome \in {"ok", "no", "throw"} : PromptEnds(i, outcome)
    \/ \E supported \in BOOLEAN, enabled \in BOOLEAN : BioStatusArrives(supported, enabled)
    \/ HandleSwitchUser

\* one mounted instance of the login screen
LoginSpec == LoginInit /\ [][LoginNext]_vars

SessionNext ==
    \/ PromptNext
    \/ Unmount
    \/ Mount

\* a browser session in which the login screen is mounted repeatedly
SessionSpec == LoginInit /\ [][SessionNext]_vars

----------------------------------------------------------------------------
(* C33: the biometric prompt is started automatically at most once per session *)

\* C33 (auto-prompt at most once per session): across any sequence of
\* re-renders, effect re-runs, remounts of the login screen and 'switch user'
\* actions within one browser session, unlockWithBiometric is invoked
\* automatically at most once.
C33_AutoPromptAtMostOnce == autoPrompts <= 1

\* the same, for the sessions in which sessionStorage can be read and written
C33_AutoPromptAtMostOnceWithStorage == ~storageFails => autoPrompts <= 1

\* a prompt was started automatically, and the screen was remounted and the
\* user switched since
C33_Witness ==
    /\ ~storageFails
    /\ autoPrompts = 1
    /\ instance = 2
    /\ mounted
    /\ activeEmail = "b"
    /\ bioSupported /\ bioEnabled
    /\ ~autoStartedRef
    /\ ~statusPending

----------------------------------------------------------------------------
(* C34: a login is reported only for the active email *)

\* C34 (login reported only for the current user): onLoginSuccess is never
\* called with an email different from the currently active email; after
\* 'switch user' no PIN verification or biometric prompt that was still in
\* flight reports a successful login for the previous email.
C34_LoginForActiveEmail ==
    loginSuccess # NoLogin => loginSuccess.email = loginSuccess.active

----------------------------------------------------------------------------
(* C35: the PIN verification *)

\* a login request is started by the step
RequestStarted == numLogins' = numLogins + 1

\* the screen accepts a new PIN
ReadyForPin == pin = <<>> /\ error = "" /\ ~isLoading

----------------------------------------------------------------------------
(* The tap bridge (useTapBridge) and the browser's pointer and click events  *)
(*                                                                           *)
(* The browser delivers pointerdown, pointerup and pointercancel for every   *)
(* pointer and every mouse button; after the pointerup of a primary-button   *)
(* press of a primary pointer it dispatches a trusted click, before any      *)
(* other event.  A click made with the keyboard is trusted and has no        *)
(* pointer events.                                                           *)

\* milliseconds of performance.now() explored
MaxNow == 400

\* opts.slopPx ?? 10 and opts.tapMs ?? 350
SLOP == 10
TAP_MS == 350

\* pointer ids: the mouse is pointer 1, every touch gets an id of its own
MouseId == 1
PointerIds == {1, 2}

\* the elements that carry the bridge's handlers; "x" lies inside an element
\* marked data-no-synthetic-click
Targets == {"a", "b", "x"}
NoSyntheticClick == {"x"}

\* mouse buttons: 0 primary, 2 secondary; a touch is always primary
Buttons(pointerId) == IF pointerId = MouseId THEN {0, 2} ELSE {0}

\* Math.abs
Abs(n) == IF n < 0 THEN 0 - n ELSE n

\* isTap of onPointerUp
IsTap(dt, dx, dy) == dt < TAP_MS /\ dx <= SLOP /\ dy <= SLOP

\* the test of onClickCapture
Suppresses(isTrusted, state) == isTrusted /\ state.suppressNextClick

\* onPointerDown(e)
onPointerDown(state, pointerId, clientX, clientY, target) ==
    IF state.id # 0 /\ pointerId # state.id
    THEN state
    ELSE [state EXCEPT !.id = pointerId, !.t0 = now, !.x0 = clientX, !.y0 = clientY,
                       !.target = target]

\* onPointerUp(e) dispatches the synthetic click
Bridges(state, pointerId, clientX, clientY) ==
    /\ state.id = pointerId
    /\ IsTap(now - state.t0, Abs(clientX - state.x0), Abs(clientY - state.y0))
    /\ state.target # ""
    /\ state.target \notin NoSyntheticClick

\* onPointerUp(e): the state it leaves
onPointerUp(state, pointerId, clientX, clientY) ==
    IF state.id # pointerId
    THEN state
    ELSE [state EXCEPT !.id = 0, !.target = "",
                       !.suppressNextClick = Bridges(state, pointerId, clientX, clientY)]

\* onPointerCancel(e)
onPointerCancel(state, pointerId) ==
    IF state.id = pointerId
    THEN [state EXCEPT !.id = 0, !.target = "", !.suppressNextClick = FALSE]
    ELSE state

\* onClickCapture(e): the state it leaves
onClickCapture(state, isTrusted) ==
    IF Suppresses(isTrusted, state) THEN [state EXCEPT !.suppressNextClick = FALSE] ELSE state

\* isPrimary of the pointer that goes down: the mouse, or the first touch
IsPrimary(pointerId) == pointerId = MouseId \/ \A q \in down : q.id = MouseId

\* a pointer goes down on a bridged element
PointerDown(pointerId, button, target) ==
    /\ pendingClick = ""
    /\ \A p \in down : p.id # pointerId
    /\ stateRef' = onPointerDown(stateRef, pointerId, 0, 0, target)
    /\ down' = down \cup {[id |-> pointerId, button |-> button, target |-> target, t |-> now,
                             primary |-> IsPrimary(pointerId)]}
    /\ UNCHANGED <<outsideTap, now, pendingClick, lastUp, lastClick, tapRuns>>

\* the pointer goes up on the element.  The synthetic click is dispatched
\* inside onPointerUp: it is not trusted, onClickCapture lets it through and
\* the click handler runs.  A primary-button press makes the browser
\* dispatch its click next.
PointerUp(p, clientX, clientY) ==
    /\ pendingClick = ""
    /\ p \in down
    /\ down' = down \ {p}
    /\ stateRef' = onClickCapture(onPointerUp(stateRef, p.id, clientX, clientY), FALSE)
    /\ tapRuns' = IF Bridges(stateRef, p.id, clientX, clientY) THEN 1 ELSE 0
    /\ lastUp' = [tap |-> /\ IsTap(now - p.t, Abs(clientX), Abs(clientY))
                          /\ p.target \notin NoSyntheticClick,
                  bridged |-> Bridges(stateRef, p.id, clientX, clientY)]
    /\ pendingClick' = IF p.button = 0 /\ p.primary THEN p.target ELSE ""
    /\ UNCHANGED <<outsideTap, now, lastClick>>

\* the pointer is released outside the bridged elements: no handler runs
PointerUpOutside(p) ==
    /\ pendingClick = ""
    /\ p \in down
    /\ down' = down \ {p}
    /\ UNCHANGED <<outsideTap, stateRef, now, pendingClick, lastUp, lastClick, tapRuns>>

\* the browser cancels the pointer (a scroll or a system gesture takes over)
PointerCancel(p) ==
    /\ pendingClick = ""
    /\ p \in down
    /\ down' = down \ {p}
    /\ stateRef' = onPointerCancel(stateRef, p.id)
    /\ UNCHANGED <<outsideTap, now, pendingClick, lastUp, lastClick, tapRuns>>

\* the browser dispatches the click of the press that just ended
NativeClick ==
    /\ pendingClick # ""
    /\ pendingClick' = ""
    /\ stateRef' = onClickCapture(stateRef, TRUE)
    /\ lastClick' = [ofTap |-> lastUp.tap, suppressed |-> Suppresses(TRUE, stateRef)]
    /\ tapRuns' = IF Suppresses(TRUE, stateRef) THEN tapRuns ELSE tapRuns + 1
    /\ UNCHANGED <<outsideTap, now, down, lastUp>>

\* the focused element is activated with the keyboard: a trusted click that
\* no pointer event precedes
KeyClick(target) ==
    /\ pendingClick = ""
    /\ stateRef' = onClickCapture(stateRef, TRUE)
    /\ lastClick' = [ofTap |-> FALSE, suppressed |-> Suppresses(TRUE, stateRef)]
    /\ UNCHANGED <<outsideTap, now, down, pendingClick, lastUp, tapRuns>>

\* time passes
Elapse(ms) ==
    /\ pendingClick = ""
    /\ now + ms <= MaxNow
    /\ now' = now + ms
    /\ UNCHANGED <<outsideTap, stateRef, down, pendingClick, lastUp, lastClick, tapRuns>>

\* the bridged elements are rendered; the App's collections and the login
\* screen are at rest
TapInit == AppInit({<<>>}) /\ tz = 0 /\ LoggedIn /\ Untouched /\ AtHome /\ Migrated

TapNext ==
    \/ \E pointerId \in PointerIds, target \in Targets :
          \E button \in Buttons(pointerId) : PointerDown(pointerId, button, target)
    \/ \E p \in down, clientX \in {0, 10, 11}, clientY \in {0, 11} : PointerUp(p, clientX, clientY)
    \/ \E p \in down : PointerUpOutside(p)
    \/ \E p \in down : PointerCancel(p)
    \/ NativeClick
    \/ \E target \in Targets : KeyClick(target)
    \/ \E ms \in {200} : Elapse(ms)

\* the elements that share one tap bridge, and the browser
TapSpec == TapInit /\ [][TapNext]_vars

----------------------------------------------------------------------------
(* C36: one click per tap *)

\* C36 (exactly one click per tap): for every tap (pointer down then up
\* within the time and movement limits) on a bridged element, the element's
\* click handler runs exactly once and the native click that follows is
\* suppressed; a click that does not follow a bridged tap is never suppressed.
C36_OneClickPerTap ==
    /\ (lastUp.tap /\ pendingClick = "") => tapRuns = 1
    /\ lastClick.ofTap => lastClick.suppressed
    /\ lastClick.suppressed => lastClick.ofTap

----------------------------------------------------------------------------
(* The App's overlays and its popstate handler                               *)
(*                                                                           *)
(* The popstate effect depends on every open flag: a change of any of them   *)
(* runs its cleanup, which clears the exit timeout, before the listener is   *)
(* registered again.                                                         *)

\* seconds explored
MaxClock == 4

\* the delay of the exit timeout (2000 ms), in seconds
ExitDelay == 2

\* the App's state but the open flag of the form and the id awaiting deletion
appRest == <<recurringExpenses, expenses, clockDay, tz, nextId, ticks, numDeletes,
             createdCount, deletedKeys, last, pc, run, editingExpense,
             editingRecurringExpense, activeRecurringExpenses, numSubmits, removedIds,
             lastSubmit>>

OverlayNames == DOMAIN AllClosed

\* the cleanup of the popstate effect: clearTimeout on the timer the ref holds
EffectCleanup == IF backPressExitTimeoutRef # 0 THEN NoTimer ELSE exitTimer

\* the exit timeout is due: its callback runs before anything else
TimerDue == exitTimer # NoTimer /\ exitTimer <= clock

\* a handler opens or closes one of the overlays (setIs...Open, setImageForAnalysis)
SetOverlay(name, value) ==
    /\ ~closedApp
    /\ ~TimerDue
    /\ overlays[name] # value
    /\ overlays' = [overlays EXCEPT ![name] = value]
    /\ exitTimer' = EffectCleanup
    /\ UNCHANGED <<app, loginScreen, tapBridge, migration, backPressExitTimeoutRef, clock,
                   lastBackAt, closedApp>>

\* a handler opens or closes the form (setIsFormOpen)
SetIsFormOpen(value) ==
    /\ ~closedApp
    /\ ~TimerDue
    /\ isFormOpen # value
    /\ isFormOpen' = value
    /\ exitTimer' = EffectCleanup
    /\ UNCHANGED <<appRest, expenseToDeleteId, loginScreen, tapBridge, migration, overlays,
                   backPressExitTimeoutRef, clock, lastBackAt, closedApp>>

\* the test of handlePopState's last branch: the ref holds a timer
ExitRequested == backPressExitTimeoutRef # 0

\* handlePopState: the back button was pressed
HandlePopState ==
    /\ ~closedApp
    /\ ~TimerDue
    /\ lastBackAt' = clock
    /\ UNCHANGED <<appRest, loginScreen, tapBridge, migration, clock>>
    /\ IF overlays.isHistoryScreenOpen
       THEN /\ overlays' = [overlays EXCEPT !.isHistoryScreenOpen = FALSE]
            /\ exitTimer' = EffectCleanup
            /\ UNCHANGED <<isFormOpen, expenseToDeleteId, backPressExitTimeoutRef, closedApp>>
       ELSE IF overlays.isRecurringScreenOpen
       THEN /\ overlays' = [overlays EXCEPT !.isRecurringScreenOpen = FALSE]
            /\ exitTimer' = EffectCleanup
            /\ UNCHANGED <<isFormOpen, expenseToDeleteId, backPressExitTimeoutRef, closedApp>>
       ELSE IF overlays.imageForAnalysis
       THEN /\ overlays' = [overlays EXCEPT !.imageForAnalysis = FALSE]
            /\ exitTimer' = EffectCleanup
            /\ UNCHANGED <<isFormOpen, expenseToDeleteId, backPressExitTimeoutRef, closedApp>>
       ELSE IF overlays.isCalculatorContainerOpen
       THEN /\ overlays' = [overlays EXCEPT !.isCalculatorContainerOpen = FALSE]
            /\ exitTimer' = EffectCleanup
            /\ UNCHANGED <<isFormOpen, expenseToDeleteId, backPressExitTimeoutRef, closedApp>>
       ELSE IF isFormOpen
       THEN /\ isFormOpen' = FALSE
            /\ exitTimer' = EffectCleanup
            /\ UNCHANGED <<overlays, expenseToDeleteId, backPressExitTimeoutRef, closedApp>>
       ELSE IF overlays.isImageSourceModalOpen
       THEN /\ overlays' = [overlays EXCEPT !.isImageSourceModalOpen = FALSE]
            /\ exitTimer' = EffectCleanup
            /\ UNCHANGED <<isFormOpen, expenseToDeleteId, backPressExitTimeoutRef, closedApp>>
       ELSE IF overlays.isVoiceModalOpen
       THEN /\ overlays' = [overlays EXCEPT !.isVoiceModalOpen = FALSE]
            /\ exitTimer' = EffectCleanup
            /\ UNCHANGED <<isFormOpen, expenseToDeleteId, backPressExitTimeoutRef, closedApp>>
       ELSE IF overlays.isConfirmDeleteModalOpen
       THEN /\ overlays' = [overlays EXCEPT !.isConfirmDeleteModalOpen = FALSE]
            /\ expenseToDeleteId' = 0
            /\ exitTimer' = EffectCleanup
            /\ UNCHANGED <<isFormOpen, backPressExitTimeoutRef, closedApp>>
       ELSE IF overlays.isMultipleExpensesModalOpen
       THEN /\ overlays' = [overlays EXCEPT !.isMultipleExpensesModalOpen = FALSE]
            /\ exitTimer' = EffectCleanup
            /\ UNCHANGED <<isFormOpen, expenseToDeleteId, backPressExitTimeoutRef, closedApp>>
       ELSE IF ExitRequested
       THEN /\ exitTimer' = NoTimer
            /\ backPressExitTimeoutRef' = 0
            /\ closedApp' = TRUE
            /\ UNCHANGED <<overlays, isFormOpen, expenseToDeleteId>>
       ELSE /\ backPressExitTimeoutRef' = 1
            /\ exitTimer' = clock + ExitDelay
            /\ UNCHANGED <<overlays, isFormOpen, expenseToDeleteId, closedApp>>

\* the callback of the exit timeout runs
ExitTimerFires ==
    /\ ~closedApp
    /\ TimerDue
    /\ backPressExitTimeoutRef' = 0
    /\ exitTimer' = NoTimer
    /\ UNCHANGED <<app, loginScreen, tapBridge, migration, overlays, clock, lastBackAt, closedApp>>

\* a second passes
ClockTick ==
    /\ ~closedApp
    /\ ~TimerDue
    /\ clock < MaxClock
    /\ clock' = clock + 1
    /\ UNCHANGED <<app, loginScreen, tapBridge, migration, overlays, backPressExitTimeoutRef,
                   exitTimer, lastBackAt, closedApp>>

\* the App is shown with no template and no expense, at the home view
BackInit == AppInit({<<>>}) /\ tz = 0 /\ LoggedIn /\ Untouched /\ AtHome /\ Migrated

BackNext ==
    \/ \E name \in OverlayNames, value \in BOOLEAN : SetOverlay(name, value)
    \/ \E value \in BOOLEAN : SetIsFormOpen(value)
    \/ HandlePopState
    \/ ExitTimerFires
    \/ ClockTick

\* the App's overlays, the back button and the clock
BackSpec == BackInit /\ [][BackNext]_vars

----------------------------------------------------------------------------
(* C37: the back button *)

\* the overlays in the order in which a back press must close them; the
\* form's flag is the App's isFormOpen
Priority ==
    <<"isHistoryScreenOpen", "isRecurringScreenOpen", "imageForAnalysis",
      "isCalculatorContainerOpen", "isFormOpen", "isImageSourceModalOpen",
      "isVoiceModalOpen", "isConfirmDeleteModalOpen", "isMultipleExpensesModalOpen">>

IsOpen(name) == IF name = "isFormOpen" THEN isFormOpen ELSE overlays[name]

OpenOverlays == {k \in 1..Len(Priority) : IsOpen(Priority[k])}

\* C37 (back-button handling): a back press while at least one overlay is
\* open closes exactly one overlay, the first open one in the fixed priority
\* order, and never closes the app; with no overlay open the app is closed
\* only by a second back press arriving within 2 seconds of the previous one.
C37_BackButton ==
    [][HandlePopState =>
          IF OpenOverlays # {}
          THEN /\ OpenOverlays' = OpenOverlays \ {SetMax({0 - k : k \in OpenOverlays}) * (0 - 1)}
               /\ ~closedApp'
          ELSE closedApp' => (lastBackAt # Never /\ clock - lastBackAt < ExitDelay)]_vars

----------------------------------------------------------------------------
(* The migration of the data stored under the old keys                       *)
(*                                                                           *)
(* Only the expenses and the recurring templates are modelled; the accounts  *)
(* are migrated by a third block of the same shape.                          *)

\* an item of localStorage: "null" is no item, "empty" the empty string,
\* "text" a string that is not JSON, "value" JSON that is not an array, and
\* "array" the JSON text of the array items
Item(kind, items) == [kind |-> kind, items |-> items]

\* the expense held under the k-th old expense key, the template under the
\* k-th old template key
LegacyExpense(k) ==
    [Template(10 + k, DayNumber(2024, 1, 1), "", 0, "", 0, 0) EXCEPT !.frequency = "single"]
LegacyTemplate(k) == Template(20 + k, DayNumber(2024, 1, 1), "monthly", 1, "forever", 0, 0)

\* the items explored under an old key whose array would hold record
ItemsFor(record) ==
    {NoItem, Item("text", <<>>), Item("array", <<>>), Item("array", <<record>>)}

\* the other items: under the first old expense key only
OtherItems == {Item("empty", <<>>), Item("value", <<>>)}

\* the place of key in keys, 0 when it is not there
KeyIndex(keys, key) ==
    IF \E k \in 1..Len(keys) : keys[k] = key
    THEN CHOOSE k \in 1..Len(keys) : keys[k] = key
    ELSE 0

\* the contents of localStorage explored
LegacyStorages ==
    {[key \in LegacyKeys |->
         IF KeyIndex(legacyExpenseKeys, key) # 0
         THEN e[KeyIndex(legacyExpenseKeys, key)]
         ELSE r[KeyIndex(legacyRecurringKeys, key)]] :
       e \in (ItemsFor(LegacyExpense(1)) \cup OtherItems) \X ItemsFor(LegacyExpense(2))
                \X ItemsFor(LegacyExpense(3)) \X ItemsFor(LegacyExpense(4)),
       r \in ItemsFor(LegacyTemplate(1)) \X ItemsFor(LegacyTemplate(2))
                \X ItemsFor(LegacyTemplate(3))}

\* !raw: getItem returned null or the empty string
IsFalsy(raw) == raw.kind \in {"null", "empty"}

\* JSON.parse(raw): it throws on text that is not JSON, and returns the array
\* a JSON array denotes
JSONparse(raw) ==
    [threw |-> raw.kind = "text",
     isArray |-> raw.kind = "array",
     items |-> IF raw.kind = "array" THEN raw.items ELSE <<>>]

\* variant: a parse error ends the loop
RECURSIVE MigrateFrom(_, _, _, _)
MigrateFrom_abort(storage, keys, k, current) ==
    IF k > Len(keys)
    THEN current
    ELSE IF IsFalsy(storage[keys[k]])
    THEN MigrateFrom(storage, keys, k + 1, current)
    ELSE IF JSONparse(storage[keys[k]]).threw
    THEN current
    ELSE IF /\ JSONparse(storage[keys[k]]).isArray
            /\ Len(JSONparse(storage[keys[k]]).items) > 0
    THEN JSONparse(storage[keys[k]]).items
    ELSE MigrateFrom(storage, keys, k + 1, current)

\* the for loop over the old keys, from the k-th on: the value the collection
\* has after it (current where no setter is called)
MigrateFrom(storage, keys, k, current) ==
    IF k > Len(keys)
    THEN current
    ELSE IF IsFalsy(storage[keys[k]])
    THEN MigrateFrom(storage, keys, k + 1, current)
    ELSE IF JSONparse(storage[keys[k]]).threw
    THEN MigrateFrom(storage, keys, k + 1, current)
    ELSE IF /\ JSONparse(storage[keys[k]]).isArray
            /\ Len(JSONparse(storage[keys[k]]).items) > 0
    THEN JSONparse(storage[keys[k]]).items
    ELSE MigrateFrom(storage, keys, k + 1, current)

\* the migration effect: it runs after the first render and after every
\* render in which a collection changed
MigrationEffect ==
    /\ pc = "idle"
    /\ IF hasRunMigrationRef
       THEN UNCHANGED <<expenses, recurringExpenses, hasRunMigrationRef, migrationRuns>>
       ELSE /\ hasRunMigrationRef' = TRUE
            /\ migrationRuns' = migrationRuns + 1
            /\ expenses' = IF Len(expenses) = 0
                           THEN MigrateFrom(legacyStorage, legacyExpenseKeys, 1, expenses)
                           ELSE expenses
            /\ recurringExpenses' =
                   IF Len(recurringExpenses) = 0
                   THEN MigrateFrom(legacyStorage, legacyRecurringKeys, 1, recurringExpenses)
                   ELSE recurringExpenses
    /\ UNCHANGED <<expenseToDeleteId, clockDay, tz, nextId, ticks, numDeletes, createdCount,
                   deletedKeys, last, run, pc, ui, legacyStorage, loginScreen, tapBridge,
                   backButton>>

\* the App at its first render, before its effects: the collections as
\* stored, anything under the old keys
MigrationInit ==
    /\ AppInitWith({<<>>, <<Template(1, DayNumber(2024, 1, 1), "monthly", 1, "forever", 0, 0)>>},
                   {<<>>, <<LegacyExpense(0)>>})
    /\ tz = 0
    /\ LoggedIn /\ Untouched /\ AtHome
    /\ legacyStorage \in LegacyStorages
    /\ hasRunMigrationRef = FALSE
    /\ migrationRuns = 0

\* the effect, and the user deleting expenses once the effects of the mount ran
MigrationNext ==
    \/ MigrationEffect
    \/ hasRunMigrationRef /\ \E i \in 1..Len(expenses) : HandleDeleteRequest(expenses[i].id)
    \/ hasRunMigrationRef /\ ConfirmDelete

MigrationSpec == MigrationInit /\ [][MigrationNext]_vars

----------------------------------------------------------------------------
(* C38: the migration never overwrites data *)

\* the key holds a non-empty array
HoldsArray(key) ==
    legacyStorage[key].kind = "array" /\ Len(legacyStorage[key].items) > 0

\* what a migration must leave in a collection: the array of the first old
\* key, in the listed order, that holds a non-empty one; the collection as it
\* is when there is none
FirstArrayOf(keys, current) ==
    IF \E k \in 1..Len(keys) : HoldsArray(keys[k])
    THEN legacyStorage[keys[CHOOSE k \in 1..Len(keys) :
                                /\ HoldsArray(keys[k])
                                /\ \A j \in 1..(k - 1) : ~HoldsArray(keys[j])]].items
    ELSE current

\* C38 (legacy migration never overwrites data): the migration runs at most
\* once per mount; a run of the effect changes the expenses (the recurring
\* templates) only if that collection is empty when the migration runs; a
\* migration that meets an empty collection leaves in it the array of the
\* first old key, in the listed order, that holds a non-empty array, whatever
\* unparsable or unusable items the keys before it hold.
C38_MigrationNeverOverwrites ==
    /\ [](migrationRuns <= 1)
    /\ [][MigrationEffect =>
            /\ (expenses # <<>> \/ migrationRuns' = migrationRuns) => expenses' = expenses
            /\ (recurringExpenses # <<>> \/ migrationRuns' = migrationRuns)
                   => recurringExpenses' = recurringExpenses
            /\ (expenses = <<>> /\ migrationRuns' # migrationRuns)
                   => expenses' = FirstArrayOf(legacyExpenseKeys, expenses)
            /\ (recurringExpenses = <<>> /\ migrationRuns' # migrationRuns)
                   => recurringExpenses' = FirstArrayOf(legacyRecurringKeys, recurringExpenses)
         ]_vars

\* the migration ran once: it skipped an unparsable first key and an empty
\* array and copied the expenses of the third key, it left the stored
\* templates alone, and the user has since deleted the migrated expense
C38_Witness ==
    /\ migrationRuns = 1
    /\ legacyStorage["expenses_v1"].kind = "text"
    /\ legacyStorage["expenses"] = Item("array", <<>>)
    /\ HoldsArray("spese") /\ HoldsArray("spese_v1")
    /\ HoldsArray("recurring_expenses")
    /\ Len(recurringExpenses) = 1 /\ recurringExpenses[1].id = 1
    /\ expenses = <<>>
    /\ last.op = "delete"
    /\ last.expenses = legacyStorage["spese"].items

====
